---- MODULE Spec2Model ----
(***************************************************************************)
(* Note graph indexing of hako: wiki-link extraction, title resolution,    *)
(* the POST /notes/import and POST /notes/reindex handlers working on the  *)
(* notes, links and note_link_states tables, and the read-time backlink    *)
(* and graph builders of the web package.                                  *)
(*                                                                         *)
(* Text is a sequence of one-character strings.  A note id is the sha256   *)
(* of its path (an injective function of the path), so a note is           *)
(* identified here by its path.                                             *)
(***************************************************************************)
EXTENDS Integers, Sequences, FiniteSets, TLC

\* ------------------------------------------------------------------------
\* Characters and text helpers
\* ------------------------------------------------------------------------
LB == "["
RB == "]"
\* The backtick character (the parser rejects it inside a string).
BT == "BACKTICK"
TL == "~"
NL == "\n"
PIPE == "|"
SP == " "

\* String.prototype.trim: the whitespace characters that occur in the model.
IsSpace(ch) == ch \in {SP, NL}

Slice(s, from, to) == [i \in 1..(to - from + 1) |-> s[from + i - 1]]

RECURSIVE TrimLeft(_)
TrimLeft(s) ==
    IF s = <<>> THEN s
    ELSE IF IsSpace(Head(s)) THEN TrimLeft(Tail(s)) ELSE s

RECURSIVE TrimRight(_)
TrimRight(s) ==
    IF s = <<>> THEN s
    ELSE IF IsSpace(s[Len(s)]) THEN TrimRight(SubSeq(s, 1, Len(s) - 1)) ELSE s

Trim(s) == TrimRight(TrimLeft(s))

\* Length of the run of character ch that starts at position i of s.
RECURSIVE RunLen(_, _, _)
RunLen(s, i, ch) ==
    IF i > Len(s) \/ s[i] # ch THEN 0 ELSE 1 + RunLen(s, i + 1, ch)

\* Length of the run of characters outside `stop` that starts at position i.
RECURSIVE RunNotIn(_, _, _)
RunNotIn(s, i, stop) ==
    IF i > Len(s) \/ s[i] \in stop THEN 0 ELSE 1 + RunNotIn(s, i + 1, stop)

\* " ".repeat(match.length) written over positions from..to-1 of s.
MaskRange(s, from, to) ==
    [i \in 1..Len(s) |-> IF i >= from /\ i < to THEN SP ELSE s[i]]

\* ------------------------------------------------------------------------
\* Wiki-link extractor of @hako/core (used by the reindex handler)
\* ------------------------------------------------------------------------

\* Earliest t >= from where k characters ch start, with no character of
\* `stop` in from..t-1 (the lazy body of the pattern); 0 when there is none.
RECURSIVE FindClose(_, _, _, _, _)
FindClose(s, from, ch, k, stop) ==
    IF from + k - 1 > Len(s) THEN 0
    ELSE IF RunLen(s, from, ch) >= k THEN from
    ELSE IF s[from] \in stop THEN 0
    ELSE FindClose(s, from + 1, ch, k, stop)

\* (ch{min,})body*?\1 tried at position i: the opening run is taken greedily
\* and given back one character at a time (k = longest run .. min).  The
\* result is the position after the match, 0 when nothing matches at i.
RECURSIVE DelimMatchEnd(_, _, _, _, _, _)
DelimMatchEnd(s, i, ch, k, min, stop) ==
    IF k < min THEN 0
    ELSE LET t == FindClose(s, i + k, ch, k, stop)
         IN  IF t # 0 THEN t + k
             ELSE DelimMatchEnd(s, i, ch, k - 1, min, stop)

\* Mutant of CoreFencedEnd: three fence characters close a block, however
\* long the run that opened it.
CoreFencedEnd_ClosesAtAnyFence(s, i) ==
    LET b == DelimMatchEnd(s, i, BT, IF RunLen(s, i, BT) >= 3 THEN 3 ELSE 0, 3, {})
    IN  IF b # 0 THEN b
        ELSE DelimMatchEnd(s, i, TL, IF RunLen(s, i, TL) >= 3 THEN 3 ELSE 0, 3, {})

\* FENCED_CODE_BLOCK_PATTERN = /(```+|~~~+)[\s\S]*?\1/g at position i.
CoreFencedEnd(s, i) ==
    LET b == DelimMatchEnd(s, i, BT, RunLen(s, i, BT), 3, {})
    IN  IF b # 0 THEN b
        ELSE DelimMatchEnd(s, i, TL, RunLen(s, i, TL), 3, {})

\* INLINE_CODE_PATTERN = /(`+)([^\n]*?)\1/g at position i.
CoreInlineEnd(s, i) == DelimMatchEnd(s, i, BT, RunLen(s, i, BT), 1, {NL})

RECURSIVE CoreMaskFenced(_, _)
CoreMaskFenced(s, i) ==
    IF i > Len(s) THEN s
    ELSE LET e == CoreFencedEnd(s, i)
         IN  IF e = 0 THEN CoreMaskFenced(s, i + 1)
             ELSE CoreMaskFenced(MaskRange(s, i, e), e)

RECURSIVE CoreMaskInline(_, _)
CoreMaskInline(s, i) ==
    IF i > Len(s) THEN s
    ELSE LET e == CoreInlineEnd(s, i)
         IN  IF e = 0 THEN CoreMaskInline(s, i + 1)
             ELSE CoreMaskInline(MaskRange(s, i, e), e)

maskCodeSpans(content) == CoreMaskInline(CoreMaskFenced(content, 1), 1)

\* WIKI_LINK_PATTERN = /\[\[([^\]|]+)(?:\|([^\]]+))?\]\]/g tried at position
\* i: [end, g1from, g1to, g2from, g2to], end = 0 when nothing matches at i
\* and g2from = 0 when the label group did not take part.
WikiMatchAt(s, i) ==
    LET none == [end |-> 0, g1from |-> 0, g1to |-> 0, g2from |-> 0, g2to |-> 0]
        n1 == RunNotIn(s, i + 2, {RB, PIPE})
        p == i + 2 + n1
        n2 == RunNotIn(s, p + 1, {RB})
        q == p + 1 + n2
    IN  IF ~(i + 1 <= Len(s) /\ s[i] = LB /\ s[i + 1] = LB) THEN none
        ELSE IF n1 = 0 THEN none
        ELSE IF p + 1 <= Len(s) /\ s[p] = RB /\ s[p + 1] = RB
             THEN [end |-> p + 2, g1from |-> i + 2, g1to |-> p - 1,
                   g2from |-> 0, g2to |-> 0]
        ELSE IF p <= Len(s) /\ s[p] = PIPE /\ n2 > 0
                /\ q + 1 <= Len(s) /\ s[q] = RB /\ s[q + 1] = RB
             THEN [end |-> q + 2, g1from |-> i + 2, g1to |-> p - 1,
                   g2from |-> p + 1, g2to |-> q - 1]
        ELSE none

\* Mutant of WikiScan: a blank label is kept, the title never stands in.
RECURSIVE WikiScan_LabelNeverDefaults(_, _)
WikiScan_LabelNeverDefaults(s, i) ==
    IF i > Len(s) THEN <<>>
    ELSE LET m == WikiMatchAt(s, i)
         IN  IF m.end = 0 THEN WikiScan_LabelNeverDefaults(s, i + 1)
             ELSE LET title == Trim(Slice(s, m.g1from, m.g1to))
                      rawLabel == IF m.g2from = 0 THEN <<>>
                                  ELSE Trim(Slice(s, m.g2from, m.g2to))
                  IN  IF title = <<>> THEN WikiScan_LabelNeverDefaults(s, m.end)
                      ELSE <<[title |-> title, label |-> rawLabel]>>
                               \o WikiScan_LabelNeverDefaults(s, m.end)

\* The loop over maskedContent.matchAll(WIKI_LINK_PATTERN).
RECURSIVE WikiScan(_, _)
WikiScan(s, i) ==
    IF i > Len(s) THEN <<>>
    ELSE LET m == WikiMatchAt(s, i)
         IN  IF m.end = 0 THEN WikiScan(s, i + 1)
             ELSE LET title == Trim(Slice(s, m.g1from, m.g1to))
                      rawLabel == IF m.g2from = 0 THEN <<>>
                                  ELSE Trim(Slice(s, m.g2from, m.g2to))
                      label == IF rawLabel = <<>> THEN title ELSE rawLabel
                  IN  IF title = <<>> THEN WikiScan(s, m.end)
                      ELSE <<[title |-> title, label |-> label]>>
                               \o WikiScan(s, m.end)

extractWikiLinks(content) == WikiScan(maskCodeSpans(content), 1)

\* ------------------------------------------------------------------------
\* Wiki-link extractor of the web package (used by backlinks and graph)
\* ------------------------------------------------------------------------

\* FENCED_CODE_BLOCK_PATTERN = /```[\s\S]*?```/g at position i.
WebFencedEnd(s, i) ==
    IF RunLen(s, i, BT) < 3 THEN 0
    ELSE LET t == FindClose(s, i + 3, BT, 3, {})
         IN  IF t = 0 THEN 0 ELSE t + 3

\* INLINE_CODE_PATTERN = /`[^`]*`/g at position i.
WebInlineEnd(s, i) ==
    IF i > Len(s) \/ s[i] # BT THEN 0
    ELSE LET t == i + 1 + RunNotIn(s, i + 1, {BT})
         IN  IF t > Len(s) THEN 0 ELSE t + 1

RECURSIVE WebMaskFenced(_, _)
WebMaskFenced(s, i) ==
    IF i > Len(s) THEN s
    ELSE LET e == WebFencedEnd(s, i)
         IN  IF e = 0 THEN WebMaskFenced(s, i + 1)
             ELSE WebMaskFenced(MaskRange(s, i, e), e)

RECURSIVE WebMaskInline(_, _)
WebMaskInline(s, i) ==
    IF i > Len(s) THEN s
    ELSE LET e == WebInlineEnd(s, i)
         IN  IF e = 0 THEN WebMaskInline(s, i + 1)
             ELSE WebMaskInline(MaskRange(s, i, e), e)

webMaskCodeSpans(content) == WebMaskInline(WebMaskFenced(content, 1), 1)

webExtractWikiLinks(content) == WikiScan(webMaskCodeSpans(content), 1)

\* ------------------------------------------------------------------------
\* Bounds and input sets
\* ------------------------------------------------------------------------

\* Reindex batches per behaviour (the clock that stamps indexedAt stops there).
MaxRuns == 2
\* Writes to the notes table per behaviour (imports and edits).
MaxWrites == 4
\* Paths of the note files the import is given.
PathA == <<"A", ".", "m", "d">>
PathB == <<"d", "/", "B", ".", "m", "d">>
Paths == {PathA, PathB}

\* The title field of an import entry ("" when the request gives paths only).
TitleInputs == {<<>>, <<SP, "B">>}

\* Note bodies an editor stores in notes.content.
BodyEmpty == <<>>
BodyThreeLinks ==
    <<LB, LB, "B", PIPE, "x", RB, RB, LB, LB, "M", RB, RB, LB, LB, "B", RB, RB>>
BodyNewlineSpan == <<BT, NL, LB, LB, "B", RB, RB, BT>>
Contents == {BodyEmpty, BodyThreeLinks, BodyNewlineSpan}

\* Fingerprints: sha256 values, told apart by what was hashed.
SourceVersions == {1}
EditHashes == {<<"edit", <<>>, 1>>, <<"edit", <<>>, 2>>}

\* SQL NULL in a column that otherwise holds text.
Null == <<"null">>

\* ------------------------------------------------------------------------
\* Pure helpers of the notes routes
\* ------------------------------------------------------------------------

\* Index of the last occurrence of ch in s, 0 when there is none.
RECURSIVE LastIndexOf(_, _, _)
LastIndexOf(s, ch, i) ==
    IF i = 0 THEN 0 ELSE IF s[i] = ch THEN i ELSE LastIndexOf(s, ch, i - 1)

\* node:path basename and extname, then the slice of deriveTitleFromPath.
deriveTitleFromPath(path) ==
    LET slash == LastIndexOf(path, "/", Len(path))
        filename == SubSeq(path, slash + 1, Len(path))
        dot == LastIndexOf(filename, ".", Len(filename))
        extLen == IF dot <= 1 THEN 0 ELSE Len(filename) - dot + 1
    IN  IF extLen > 0 THEN SubSeq(filename, 1, Len(filename) - extLen)
        ELSE filename

\* sha256(path): injective on paths.
computeNoteId(path) == <<"id", path>>

\* sha256(path:mtimeMs:size); version stands for the file's mtime and size.
computeSourceFingerprint(path, version) == <<"src", path, version>>

Ids == {computeNoteId(p) : p \in Paths}

\* Byte order of the characters that occur in titles (SQLite BINARY collation).
CharCode(ch) ==
    CASE ch = SP -> 32 [] ch = "A" -> 65 [] ch = "B" -> 66 [] ch = "M" -> 77
      [] ch = "[" -> 91 [] ch = "d" -> 100 [] ch = "x" -> 120 [] OTHER -> 127

RECURSIVE TextLeq(_, _)
TextLeq(a, b) ==
    IF a = <<>> THEN TRUE
    ELSE IF b = <<>> THEN FALSE
    ELSE IF CharCode(Head(a)) < CharCode(Head(b)) THEN TRUE
    ELSE IF CharCode(Head(a)) > CharCode(Head(b)) THEN FALSE
    ELSE TextLeq(Tail(a), Tail(b))

\* select * from notes order by title asc: every order of the rows in which
\* titles never decrease (SQL leaves the order of equal titles open).
listNotes(table) ==
    LET n == Cardinality(DOMAIN table)
    IN  { [i \in 1..n |-> table[f[i]]] :
            f \in { g \in [1..n -> DOMAIN table] :
                      /\ \A i, j \in 1..n : i # j => g[i] # g[j]
                      /\ \A i, j \in 1..n :
                           i < j => TextLeq(table[g[i]].title, table[g[j]].title) } }

\* Mutant of buildTitleMap: the map is never filled.
buildTitleMap_Empty(list) == [t \in {} |-> t]

\* Mutant of buildTitleMap: the first note of the list that has a title
\* keeps it.
buildTitleMap_FirstWins(list) ==
    LET titles == {list[i].title : i \in 1..Len(list)}
        first(t) == CHOOSE i \in 1..Len(list) :
                      /\ list[i].title = t
                      /\ \A j \in 1..Len(list) : list[j].title = t => i <= j
    IN  [t \in titles |-> list[first(t)]]

\* new Map(notes.map((note) => [note.title, note])): a later note of the list
\* replaces an earlier one that has the same title.
buildTitleMap(list) ==
    LET titles == {list[i].title : i \in 1..Len(list)}
        last(t) == CHOOSE i \in 1..Len(list) :
                     /\ list[i].title = t
                     /\ \A j \in 1..Len(list) : list[j].title = t => j <= i
    IN  [t \in titles |-> list[last(t)]]

\* Mutant of buildLinkInserts: the target is looked up but never stored.
buildLinkInserts_NeverResolves(note, titleMap) ==
    LET extracted == extractWikiLinks(note.content)
    IN  [i \in 1..Len(extracted) |->
           [fromNoteId |-> note.id, toNoteId |-> <<"null">>,
            toTitle |-> extracted[i].title, toPath |-> <<"null">>,
            linkText |-> extracted[i].label, position |-> i - 1]]

\* Mutant of buildLinkInserts: position counts from one.
buildLinkInserts_OneBased(note, titleMap) ==
    LET extracted == extractWikiLinks(note.content)
    IN  [i \in 1..Len(extracted) |->
           LET link == extracted[i]
               found == link.title \in DOMAIN titleMap
           IN  [fromNoteId |-> note.id,
                toNoteId |-> IF found THEN titleMap[link.title].id ELSE <<"null">>,
                toTitle |-> link.title,
                toPath |-> IF found THEN titleMap[link.title].path ELSE <<"null">>,
                linkText |-> link.label,
                position |-> i]]

buildLinkInserts(note, titleMap) ==
    LET extracted == extractWikiLinks(note.content)
    IN  [i \in 1..Len(extracted) |->
           LET link == extracted[i]
               found == link.title \in DOMAIN titleMap
           IN  [fromNoteId |-> note.id,
                toNoteId |-> IF found THEN titleMap[link.title].id ELSE Null,
                toTitle |-> link.title,
                toPath |-> IF found THEN titleMap[link.title].path ELSE Null,
                linkText |-> link.label,
                position |-> i - 1]]

\* Rows of a links table that belong to one source note, in table order.
LinksFrom(table, id) == SelectSeq(table, LAMBDA r : r.fromNoteId = id)

\* Mutant of DeleteLinksFrom: nothing is deleted.
DeleteLinksFrom_Nothing(table, id) == table

\* Mutant of DeleteLinksFrom: the delete filters on to_note_id.
DeleteLinksFrom_ByTarget(table, id) == SelectSeq(table, LAMBDA r : r.toNoteId # id)

\* delete from links where from_note_id = id.
DeleteLinksFrom(table, id) == SelectSeq(table, LAMBDA r : r.fromNoteId # id)

\* ------------------------------------------------------------------------
\* Read-time derivations of the web package
\* ------------------------------------------------------------------------

\* Mutant of buildBacklinks: the inner loop has no break, one entry per link.
RECURSIVE buildBacklinks_NoBreak(_, _)
buildBacklinks_NoBreak(list, targetTitle) ==
    IF list = <<>> THEN <<>>
    ELSE LET note == Head(list)
             hits == SelectSeq(webExtractWikiLinks(note.content),
                               LAMBDA l : l.title = targetTitle)
         IN  [i \in 1..Len(hits) |-> [title |-> note.title, label |-> note.title]]
                 \o buildBacklinks_NoBreak(Tail(list), targetTitle)

\* buildBacklinks(notes, targetTitle): one entry per note that has a link to
\* targetTitle (the inner loop breaks at the first one), in list order.
RECURSIVE buildBacklinks(_, _)
buildBacklinks(list, targetTitle) ==
    IF list = <<>> THEN <<>>
    ELSE LET note == Head(list)
             found == \E i \in 1..Len(webExtractWikiLinks(note.content)) :
                          webExtractWikiLinks(note.content)[i].title = targetTitle
         IN  (IF found THEN <<[title |-> note.title, label |-> note.title]>>
              ELSE <<>>) \o buildBacklinks(Tail(list), targetTitle)

\* titleToId of buildNoteGraph: filled in list order, a later note wins.
GraphTitleToId(list) ==
    LET m == buildTitleMap(list) IN [t \in DOMAIN m |-> m[t].id]

\* Mutant of GraphLinksOf: a link to an unknown title is pushed too.
GraphLinksOf_KeepsUnknown(note, titleToId) ==
    LET all == webExtractWikiLinks(note.content)
    IN  [i \in 1..Len(all) |->
           [source |-> note.id,
            target |-> IF all[i].title \in DOMAIN titleToId
                       THEN titleToId[all[i].title] ELSE Null]]

\* The links pushed for one note.
GraphLinksOf(note, titleToId) ==
    LET known == SelectSeq(webExtractWikiLinks(note.content),
                           LAMBDA l : l.title \in DOMAIN titleToId)
    IN  [i \in 1..Len(known) |->
           [source |-> note.id, target |-> titleToId[known[i].title]]]

RECURSIVE GraphLinks(_, _)
GraphLinks(list, titleToId) ==
    IF list = <<>> THEN <<>>
    ELSE GraphLinksOf(Head(list), titleToId) \o GraphLinks(Tail(list), titleToId)

buildNoteGraph(list) ==
    [nodes |-> [i \in 1..Len(list) |-> [id |-> list[i].id, title |-> list[i].title]],
     links |-> GraphLinks(list, GraphTitleToId(list))]

\* ------------------------------------------------------------------------
\* State
\* ------------------------------------------------------------------------
VARIABLES
    notes,          \* notes table: note id -> row
    links,          \* links table: rows in the order of their autoincrement id
    states,         \* note_link_states table: note id -> row
    clock,          \* wall clock, read for indexedAt
    writes,         \* writes to the notes table so far
    pc,             \* reindex handler: "idle", "states", "tx", "done"
    snap,           \* const notes: the list listNotes returned
    stateMap,       \* const stateMap: note id -> stored contentHash
    indexedAt,      \* const indexedAt
    idx,            \* position of the for loop in snap
    stats,          \* the let counters of the transaction callback
    txLinks,        \* links table as the open transaction sees it
    txStates,       \* note_link_states table as the open transaction sees it
    result,         \* what the reindex call gives its caller
    preLinks,       \* history: links table when the transaction opened
    preStates,      \* history: note_link_states table when the transaction opened
    indexedBody,    \* history: note id -> content the note had when last indexed
    txIndexedBody,  \* history: indexedBody as the open transaction leaves it
    prevOk,         \* history: the last finished reindex call committed
    dirty,          \* history: a notes row was written since the last snapshot
    runClean,       \* history: this call follows a committed one, no write between
    indexRuns,      \* index_runs table: rows in the order of their autoincrement id
    reply,          \* response the import handler or a read has ready for its caller
    before,         \* history: the tables when the handler holding reply started
    lastImport,     \* history: body of the request served last, when it was an import
    text,           \* a note body under the extractors, typed piece by piece
    typed,          \* history: the pieces of text, in order
    coreOut,        \* extractWikiLinks(text) of @hako/core
    webOut,         \* extractWikiLinks(text) of the web package
    configCache,    \* const configCache: cache key -> the load it holds, or NoLoad
    loads,          \* the promises loadHakoConfig has returned, in order of creation
    configFile,     \* cache key -> the texts written to its config file, last is current
    calls,          \* history: the calls of loadHakoConfigCached, in order
    epoch,          \* history: cache key -> reloads and clears of the key so far
    other           \* a second POST /notes/reindex in flight: its locals

vars == <<notes, links, states, clock, writes, pc, snap, stateMap, indexedAt, idx,
          stats, txLinks, txStates, result, preLinks, preStates, indexedBody,
          txIndexedBody, prevOk, dirty, runClean, indexRuns, reply, before,
          lastImport, text, typed, coreOut, webOut, configCache, loads, configFile,
          calls, epoch, other>>

\* What the extractors are run on, and what they gave.
extractorVars == <<text, typed, coreOut, webOut>>

\* The config cache of @hako/core, its loads and the config files.
cacheVars == <<configCache, loads, configFile, calls, epoch>>

reindexLocals == <<snap, stateMap, indexedAt, idx, stats, txLinks, txStates,
                   preLinks, preStates, txIndexedBody>>

EmptyMap == [x \in {} |-> x]
ZeroStats ==
    [notesIndexed |-> 0, notesSkipped |-> 0, linksInserted |-> 0, linksDeleted |-> 0]
NoResult == [status |-> "none"]
\* No response is waiting to be returned.
NoReply == [op |-> "none"]
NoBefore == [op |-> "none"]
\* The request served last was not an import (or an import of no entry).
NoRequest == <<>>
\* The extractors have not run on text.
NotRun == [done |-> FALSE, links |-> <<>>]

\* The cache key resolveCacheKey gives for the config path of the callers.
ConfigKeys == {"path:/a/config.yaml"}
\* configCache.get(key) is undefined.
NoLoad == 0
\* A load that has not settled, or was rejected, has no config.
NoConfig == [source |-> NoLoad, text |-> "", version |-> 0]
\* No second reindex request is in flight.
OtherIdle == [pc |-> "idle", snap |-> <<>>, stateMap |-> EmptyMap, indexedAt |-> 0]

Init ==
    /\ notes = EmptyMap
    /\ links = <<>>
    /\ states = EmptyMap
    /\ clock = 0
    /\ writes = 0
    /\ pc = "idle"
    /\ snap = <<>>
    /\ stateMap = EmptyMap
    /\ indexedAt = 0
    /\ idx = 0
    /\ stats = ZeroStats
    /\ txLinks = <<>>
    /\ txStates = EmptyMap
    /\ result = NoResult
    /\ preLinks = <<>>
    /\ preStates = EmptyMap
    /\ indexedBody = EmptyMap
    /\ txIndexedBody = EmptyMap
    /\ prevOk = FALSE
    /\ dirty = FALSE
    /\ runClean = FALSE
    /\ indexRuns = <<>>
    /\ reply = NoReply
    /\ before = NoBefore
    /\ lastImport = NoRequest
    /\ text = <<>>
    /\ typed = <<>>
    /\ coreOut = NotRun
    /\ webOut = NotRun
    /\ configCache = [key \in ConfigKeys |-> NoLoad]
    /\ loads = <<>>
    /\ configFile = [key \in ConfigKeys |-> <<"first">>]
    /\ calls = <<>>
    /\ epoch = [key \in ConfigKeys |-> 0]
    /\ other = OtherIdle

\* Map m with key k set to v (insert or replace).
Put(m, k, v) == [x \in DOMAIN m \cup {k} |-> IF x = k THEN v ELSE m[x]]

\* ------------------------------------------------------------------------
\* POST /notes/import
\* ------------------------------------------------------------------------

\* Mutant of ShouldUpdate: the stored row is not looked at.
ShouldUpdate_IgnoresStored(existing, title, sourceHash) == TRUE

\* const shouldUpdate = existing.title !== title ||
\*                      (canUpdateContentHash && existing.contentHash !== sourceHash)
ShouldUpdate(existing, title, sourceHash) ==
    \/ existing.title # title
    \/ existing.content = <<>> /\ existing.contentHash # sourceHash

\* title: note.title.trim() || deriveTitleFromPath(note.path)
EntryTitle(entry) ==
    IF Trim(entry.title) = <<>> THEN deriveTitleFromPath(entry.path)
    ELSE Trim(entry.title)

\* Mutant of ImportEntry: an update always stores the source fingerprint.
ImportEntry_AlwaysRehash(table, entry) ==
    LET path == entry.path
        title == EntryTitle(entry)
        sourceHash == computeSourceFingerprint(path, entry.version)
        id == computeNoteId(path)
    IN  IF id \notin DOMAIN table
        THEN [x \in DOMAIN table \cup {id} |->
                IF x = id THEN [id |-> id, title |-> title, path |-> path,
                                content |-> <<>>, contentHash |-> sourceHash]
                ELSE table[x]]
        ELSE IF ~ShouldUpdate(table[id], title, sourceHash) THEN table
        ELSE [table EXCEPT ![id].title = title, ![id].contentHash = sourceHash]

\* Mutant of ImportEntry: a created note is stored with a body of three links.
ImportEntry_StoresBody(table, entry) ==
    LET path == entry.path
        title == EntryTitle(entry)
        sourceHash == computeSourceFingerprint(path, entry.version)
        id == computeNoteId(path)
    IN  IF id \notin DOMAIN table
        THEN Put(table, id, [id |-> id, title |-> title, path |-> path,
                             content |-> BodyThreeLinks, contentHash |-> sourceHash])
        ELSE LET existing == table[id]
                 canUpdateContentHash == existing.content = <<>>
             IN  IF ~ShouldUpdate(existing, title, sourceHash) THEN table
                 ELSE Put(table, id,
                          [existing EXCEPT
                             !.title = title,
                             !.contentHash = IF canUpdateContentHash THEN sourceHash
                                             ELSE @])

\* One pass of the for loop over imports: the notes table after the entry.
ImportEntry(table, entry) ==
    LET path == entry.path
        title == EntryTitle(entry)
        sourceHash == computeSourceFingerprint(path, entry.version)
        id == computeNoteId(path)
    IN  IF id \notin DOMAIN table
        THEN Put(table, id, [id |-> id, title |-> title, path |-> path,
                             content |-> <<>>, contentHash |-> sourceHash])
        ELSE LET existing == table[id]
                 canUpdateContentHash == existing.content = <<>>
             IN  IF ~ShouldUpdate(existing, title, sourceHash) THEN table
                 ELSE Put(table, id,
                          [existing EXCEPT
                             !.title = title,
                             !.contentHash = IF canUpdateContentHash THEN sourceHash
                                             ELSE @])

RECURSIVE ImportAll(_, _)
ImportAll(table, entries) ==
    IF entries = <<>> THEN table
    ELSE ImportAll(ImportEntry(table, Head(entries)), Tail(entries))

\* What the for loop pushes to results for one entry, given the notes table
\* the entry meets.
ImportResult(table, entry) ==
    LET path == entry.path
        title == EntryTitle(entry)
        sourceHash == computeSourceFingerprint(path, entry.version)
        id == computeNoteId(path)
    IN  IF id \notin DOMAIN table
        THEN [id |-> id, title |-> title, path |-> path, status |-> "created"]
        ELSE IF ~ShouldUpdate(table[id], title, sourceHash)
        THEN [id |-> id, title |-> table[id].title, path |-> table[id].path,
              status |-> "skipped"]
        ELSE [id |-> id, title |-> title, path |-> path, status |-> "updated"]

RECURSIVE ImportResults(_, _)
ImportResults(table, entries) ==
    IF entries = <<>> THEN <<>>
    ELSE <<ImportResult(table, Head(entries))>>
             \o ImportResults(ImportEntry(table, Head(entries)), Tail(entries))

\* The body of the 200 response: total, the counters and the results.
ImportResponse(table, entries) ==
    LET results == ImportResults(table, entries)
        count(status) ==
            Cardinality({i \in 1..Len(results) : results[i].status = status})
    IN  [op |-> "import",
         total |-> Len(entries),
         created |-> count("created"),
         updated |-> count("updated"),
         skipped |-> count("skipped"),
         notes |-> results]

ImportEntries == [path : Paths, title : TitleInputs, version : SourceVersions]

\* The request bodies tried: every single entry, and both paths without titles.
ImportRequests ==
    {<<e>> : e \in ImportEntries}
        \cup {<<[path |-> PathA, title |-> <<>>, version |-> 1],
                [path |-> PathB, title |-> <<>>, version |-> 1]>>}

\* The handlers are served one at a time, but the reindex handler awaits
\* between reading the notes and opening its transaction: an import can land
\* there.  (The transaction itself never reads notes.)
NotesWritable == pc \in {"idle", "states"} /\ writes < MaxWrites

\* The four tables, as a handler finds them.
Tables ==
    [op |-> "some", notes |-> notes, links |-> links, states |-> states,
     indexRuns |-> indexRuns, lastImport |-> lastImport]

\* Mutant of Import: the link rows of the notes of the request are dropped.
Import_DropsLinks(entries) ==
    /\ NotesWritable
    /\ reply = NoReply
    /\ notes' = ImportAll(notes, entries)
    /\ reply' = ImportResponse(notes, entries)
    /\ before' = Tables
    /\ lastImport' = entries
    /\ dirty' = (dirty \/ notes' # notes)
    /\ writes' = writes + 1
    /\ links' = SelectSeq(links, LAMBDA r :
                   \A i \in 1..Len(entries) : r.fromNoteId # computeNoteId(entries[i].path))
    /\ UNCHANGED <<states, clock, pc, result, reindexLocals, indexedBody,
                   prevOk, runClean, indexRuns, extractorVars, cacheVars, other>>

Import(entries) ==
    /\ NotesWritable
    /\ reply = NoReply
    /\ notes' = ImportAll(notes, entries)
    /\ reply' = ImportResponse(notes, entries)
    /\ before' = Tables
    /\ lastImport' = entries
    /\ dirty' = (dirty \/ notes' # notes)
    /\ writes' = writes + 1
    /\ UNCHANGED <<links, states, clock, pc, result, reindexLocals, indexedBody,
                   prevOk, runClean, indexRuns, extractorVars, cacheVars, other>>

\* The handler returns what it has ready.  Nothing runs between the end of
\* its transaction or query and its return: that tail is synchronous.
Return ==
    /\ reply # NoReply
    /\ reply' = NoReply
    /\ before' = NoBefore
    /\ UNCHANGED <<notes, links, states, clock, writes, pc, result, reindexLocals,
                   indexedBody, prevOk, dirty, runClean, indexRuns, lastImport,
                   extractorVars, cacheVars, other>>

\* ------------------------------------------------------------------------
\* An editor outside the routes stores a note's body and its fingerprint,
\* between two reindex calls
\* ------------------------------------------------------------------------
EditNote(id, body, hash) ==
    /\ NotesWritable
    /\ reply = NoReply
    /\ pc = "idle"
    /\ id \in DOMAIN notes
    /\ hash # notes[id].contentHash
    /\ notes' = [notes EXCEPT ![id].content = body, ![id].contentHash = hash]
    /\ dirty' = TRUE
    /\ writes' = writes + 1
    /\ UNCHANGED <<links, states, clock, pc, result, reindexLocals, indexedBody,
                   prevOk, runClean,
                   indexRuns, reply, before, extractorVars, cacheVars, other>>
    /\ lastImport' = NoRequest

\* ------------------------------------------------------------------------
\* POST /notes/reindex
\* ------------------------------------------------------------------------

\* const notes = await listNotes(db); const titleMap = buildTitleMap(notes)
ReindexStart ==
    /\ pc = "idle"
    /\ reply = NoReply
    /\ clock < MaxRuns
    /\ \E list \in listNotes(notes) : snap' = list
    /\ pc' = "states"
    /\ runClean' = (prevOk /\ ~dirty)
    /\ dirty' = FALSE
    /\ UNCHANGED <<notes, links, states, clock, writes, stateMap, indexedAt, idx,
                   stats, txLinks, txStates, result, preLinks, preStates,
                   indexedBody, txIndexedBody, prevOk,
                   indexRuns, reply, before, extractorVars, cacheVars, other>>
    /\ lastImport' = NoRequest

\* existingStates, stateMap, indexedAt, then db.transaction opens.
ReindexLoadStates ==
    /\ pc = "states"
    /\ reply = NoReply
    /\ stateMap' = [id \in DOMAIN states |-> states[id].contentHash]
    /\ clock' = clock + 1
    /\ indexedAt' = clock'
    /\ idx' = 1
    /\ stats' = ZeroStats
    /\ txLinks' = links
    /\ txStates' = states
    /\ preLinks' = links
    /\ preStates' = states
    /\ txIndexedBody' = indexedBody
    /\ pc' = "tx"
    /\ UNCHANGED <<notes, links, states, writes, snap, result, indexedBody, prevOk,
                   dirty, runClean,
                   indexRuns, reply, before, extractorVars, cacheVars, other>>
    /\ lastImport' = NoRequest

\* Mutant of IsUnchanged: the stored hash is compared with the note id.
IsUnchanged_ComparesId(note, map) == note.id \in DOMAIN map /\ map[note.id] = note.id

\* Mutant of IsUnchanged: a note without a state row counts as unchanged.
IsUnchanged_MissingIsSame(note, map) ==
    note.id \notin DOMAIN map \/ map[note.id] = note.contentHash

\* previousHash === note.contentHash
IsUnchanged(note, map) == note.id \in DOMAIN map /\ map[note.id] = note.contentHash

\* Mutant of ReindexNote: the skip branch stamps the state row again.
ReindexNote_TouchesSkipped ==
    /\ pc = "tx"
    /\ reply = NoReply
    /\ idx <= Len(snap)
    /\ LET note == snap[idx]
           inserts == buildLinkInserts(note, buildTitleMap(snap))
           deleted == Len(txLinks) - Len(DeleteLinksFrom(txLinks, note.id))
           row == [noteId |-> note.id, contentHash |-> note.contentHash,
                   indexedAt |-> indexedAt]
       IN  IF IsUnchanged(note, stateMap)
           THEN /\ stats' = [stats EXCEPT !.notesSkipped = @ + 1]
                /\ txStates' = Put(txStates, note.id, row)
                /\ UNCHANGED <<txLinks, txIndexedBody>>
           ELSE /\ stats' = [stats EXCEPT !.notesIndexed = @ + 1,
                                          !.linksDeleted = @ + deleted,
                                          !.linksInserted = @ + Len(inserts)]
                /\ txLinks' = DeleteLinksFrom(txLinks, note.id) \o inserts
                /\ txStates' = Put(txStates, note.id, row)
                /\ txIndexedBody' = Put(txIndexedBody, note.id, note.content)
    /\ idx' = idx + 1
    /\ UNCHANGED <<notes, links, states, clock, writes, pc, snap, stateMap,
                   indexedAt, result, preLinks, preStates, indexedBody, prevOk,
                   dirty, runClean,
                   indexRuns, reply, before, extractorVars, cacheVars, other>>
    /\ lastImport' = NoRequest

\* Mutant of ReindexNote: the titles are fetched again for every note.
ReindexNote_RefetchesTitles ==
    /\ pc = "tx"
    /\ reply = NoReply
    /\ idx <= Len(snap)
    /\ \E list \in listNotes(notes) :
          LET note == snap[idx]
              inserts == buildLinkInserts(note, buildTitleMap(list))
              deleted == Len(txLinks) - Len(DeleteLinksFrom(txLinks, note.id))
          IN  IF IsUnchanged(note, stateMap)
              THEN /\ stats' = [stats EXCEPT !.notesSkipped = @ + 1]
                   /\ UNCHANGED <<txLinks, txStates, txIndexedBody>>
              ELSE /\ stats' = [stats EXCEPT !.notesIndexed = @ + 1,
                                             !.linksDeleted = @ + deleted,
                                             !.linksInserted = @ + Len(inserts)]
                   /\ txLinks' = DeleteLinksFrom(txLinks, note.id) \o inserts
                   /\ txStates' = Put(txStates, note.id,
                                      [noteId |-> note.id,
                                       contentHash |-> note.contentHash,
                                       indexedAt |-> indexedAt])
                   /\ txIndexedBody' = Put(txIndexedBody, note.id, note.content)
    /\ idx' = idx + 1
    /\ UNCHANGED <<notes, links, states, clock, writes, pc, snap, stateMap,
                   indexedAt, result, preLinks, preStates, indexedBody, prevOk,
                   dirty, runClean,
                   indexRuns, reply, before, extractorVars, cacheVars, other>>
    /\ lastImport' = NoRequest

\* Mutant of ReindexNote: every note is indexed, the stored hash is not looked at.
ReindexNote_IndexesEveryNote ==
    /\ pc = "tx"
    /\ reply = NoReply
    /\ idx <= Len(snap)
    /\ LET note == snap[idx]
           inserts == buildLinkInserts(note, buildTitleMap(snap))
           deleted == Len(txLinks) - Len(DeleteLinksFrom(txLinks, note.id))
       IN  /\ stats' = [stats EXCEPT !.notesIndexed = @ + 1,
                                     !.linksDeleted = @ + deleted,
                                     !.linksInserted = @ + Len(inserts)]
           /\ txLinks' = DeleteLinksFrom(txLinks, note.id) \o inserts
           /\ txStates' = Put(txStates, note.id,
                              [noteId |-> note.id,
                               contentHash |-> note.contentHash,
                               indexedAt |-> indexedAt])
           /\ txIndexedBody' = Put(txIndexedBody, note.id, note.content)
    /\ idx' = idx + 1
    /\ UNCHANGED <<notes, links, states, clock, writes, pc, snap, stateMap,
                   indexedAt, result, preLinks, preStates, indexedBody, prevOk,
                   dirty, runClean,
                   indexRuns, reply, before, extractorVars, cacheVars, other>>
    /\ lastImport' = NoRequest

\* Mutant of ReindexNote: the state row takes the hash the note has now.
ReindexNote_StoresCurrentHash ==
    /\ pc = "tx"
    /\ reply = NoReply
    /\ idx <= Len(snap)
    /\ LET note == snap[idx]
           inserts == buildLinkInserts(note, buildTitleMap(snap))
           deleted == Len(txLinks) - Len(DeleteLinksFrom(txLinks, note.id))
       IN  IF IsUnchanged(note, stateMap)
           THEN /\ stats' = [stats EXCEPT !.notesSkipped = @ + 1]
                /\ UNCHANGED <<txLinks, txStates, txIndexedBody>>
           ELSE /\ stats' = [stats EXCEPT !.notesIndexed = @ + 1,
                                          !.linksDeleted = @ + deleted,
                                          !.linksInserted = @ + Len(inserts)]
                /\ txLinks' = DeleteLinksFrom(txLinks, note.id) \o inserts
                /\ txStates' = Put(txStates, note.id,
                                   [noteId |-> note.id,
                                    contentHash |-> notes[note.id].contentHash,
                                    indexedAt |-> indexedAt])
                /\ txIndexedBody' = Put(txIndexedBody, note.id, note.content)
    /\ idx' = idx + 1
    /\ UNCHANGED <<notes, links, states, clock, writes, pc, snap, stateMap,
                   indexedAt, result, preLinks, preStates, indexedBody, prevOk,
                   dirty, runClean,
                   indexRuns, reply, before, extractorVars, cacheVars, other>>
    /\ lastImport' = NoRequest

\* One pass of the for loop of the transaction callback.
ReindexNote ==
    /\ pc = "tx"
    /\ reply = NoReply
    /\ idx <= Len(snap)
    /\ LET note == snap[idx]
           inserts == buildLinkInserts(note, buildTitleMap(snap))
           deleted == Len(txLinks) - Len(DeleteLinksFrom(txLinks, note.id))
       IN  IF IsUnchanged(note, stateMap)
           THEN /\ stats' = [stats EXCEPT !.notesSkipped = @ + 1]
                /\ UNCHANGED <<txLinks, txStates, txIndexedBody>>
           ELSE /\ stats' = [stats EXCEPT !.notesIndexed = @ + 1,
                                          !.linksDeleted = @ + deleted,
                                          !.linksInserted = @ + Len(inserts)]
                /\ txLinks' = DeleteLinksFrom(txLinks, note.id) \o inserts
                /\ txStates' = Put(txStates, note.id,
                                   [noteId |-> note.id,
                                    contentHash |-> note.contentHash,
                                    indexedAt |-> indexedAt])
                /\ txIndexedBody' = Put(txIndexedBody, note.id, note.content)
    /\ idx' = idx + 1
    /\ UNCHANGED <<notes, links, states, clock, writes, pc, snap, stateMap,
                   indexedAt, result, preLinks, preStates, indexedBody, prevOk,
                   dirty, runClean,
                   indexRuns, reply, before, extractorVars, cacheVars, other>>
    /\ lastImport' = NoRequest

\* Mutant of ReindexCommit: notesTotal counts the notes indexed.
ReindexCommit_TotalIsIndexed ==
    /\ pc = "tx"
    /\ reply = NoReply
    /\ idx > Len(snap)
    /\ links' = txLinks
    /\ states' = txStates
    /\ indexedBody' = txIndexedBody
    /\ result' = [status |-> "ok",
                  notesTotal |-> stats.notesIndexed,
                  notesIndexed |-> stats.notesIndexed,
                  notesSkipped |-> stats.notesSkipped,
                  linksInserted |-> stats.linksInserted,
                  linksDeleted |-> stats.linksDeleted]
    /\ pc' = "done"
    /\ prevOk' = TRUE
    /\ UNCHANGED <<notes, clock, writes, reindexLocals, dirty, runClean,
                   indexRuns, reply, before, extractorVars, cacheVars, other>>
    /\ lastImport' = NoRequest

\* The callback returns, the transaction commits, the handler builds its
\* response from stats and notes.length.
ReindexCommit ==
    /\ pc = "tx"
    /\ reply = NoReply
    /\ idx > Len(snap)
    /\ links' = txLinks
    /\ states' = txStates
    /\ indexedBody' = txIndexedBody
    /\ result' = [status |-> "ok",
                  notesTotal |-> Len(snap),
                  notesIndexed |-> stats.notesIndexed,
                  notesSkipped |-> stats.notesSkipped,
                  linksInserted |-> stats.linksInserted,
                  linksDeleted |-> stats.linksDeleted]
    /\ pc' = "done"
    /\ prevOk' = TRUE
    /\ UNCHANGED <<notes, clock, writes, reindexLocals, dirty, runClean,
                   indexRuns, reply, before, extractorVars, cacheVars, other>>
    /\ lastImport' = NoRequest

\* Mutant of ReindexFail: the writes made so far stay in the tables.
ReindexFail_KeepsWrites ==
    /\ pc = "tx"
    /\ reply = NoReply
    /\ links' = txLinks
    /\ states' = txStates
    /\ result' = [status |-> "error"]
    /\ pc' = "done"
    /\ prevOk' = FALSE
    /\ UNCHANGED <<notes, clock, writes, reindexLocals, indexedBody, dirty, runClean,
                   indexRuns, reply, before, extractorVars, cacheVars, other>>
    /\ lastImport' = NoRequest

\* A statement of the transaction raises (at any point of the loop, or the
\* commit itself): db.transaction rolls back and rethrows, and the handler
\* has no catch.
ReindexFail ==
    /\ pc = "tx"
    /\ reply = NoReply
    /\ result' = [status |-> "error"]
    /\ pc' = "done"
    /\ prevOk' = FALSE
    /\ UNCHANGED <<notes, links, states, clock, writes, reindexLocals, indexedBody,
                   dirty, runClean,
                   indexRuns, reply, before, extractorVars, cacheVars, other>>
    /\ lastImport' = NoRequest

\* The caller has the response; the locals of the call are gone.
ReindexReturn ==
    /\ pc = "done"
    /\ reply = NoReply
    /\ pc' = "idle"
    /\ result' = NoResult
    /\ snap' = <<>>
    /\ stateMap' = EmptyMap
    /\ indexedAt' = 0
    /\ idx' = 0
    /\ stats' = ZeroStats
    /\ txLinks' = <<>>
    /\ txStates' = EmptyMap
    /\ preLinks' = <<>>
    /\ preStates' = EmptyMap
    /\ txIndexedBody' = EmptyMap
    /\ UNCHANGED <<notes, links, states, clock, writes, indexedBody, prevOk, dirty,
                   runClean,
                   indexRuns, reply, before, extractorVars, cacheVars, other>>
    /\ lastImport' = NoRequest

Next ==
    \/ \E entries \in ImportRequests : Import(entries)
    \/ \E id \in Ids, body \in Contents, hash \in EditHashes : EditNote(id, body, hash)
    \/ ReindexStart
    \/ ReindexLoadStates
    \/ ReindexNote
    \/ ReindexCommit
    \/ ReindexFail
    \/ ReindexReturn
    \/ Return

Spec == Init /\ [][Next]_vars

\* ------------------------------------------------------------------------
\* Imports of files that change between calls, and requests that name one
\* path twice
\* ------------------------------------------------------------------------

\* States of a file (its mtime and size) a fingerprint is taken of.
FileVersions == {1, 2}

FileImportRequests ==
    {<<e>> : e \in [path : Paths, title : TitleInputs, version : FileVersions]}
        \cup {<<[path |-> PathA, title |-> <<>>, version |-> 1],
                [path |-> PathB, title |-> <<>>, version |-> 1]>>,
              <<[path |-> PathA, title |-> <<>>, version |-> 1],
                [path |-> PathA, title |-> <<>>, version |-> 1]>>,
              <<[path |-> PathA, title |-> <<>>, version |-> 1],
                [path |-> PathA, title |-> <<SP, "B">>, version |-> 1]>>}

ImportNext ==
    \/ \E entries \in FileImportRequests : Import(entries)
    \/ \E id \in Ids, body \in Contents, hash \in EditHashes : EditNote(id, body, hash)
    \/ Return

ImportSpec == Init /\ [][ImportNext]_vars

\* ------------------------------------------------------------------------
\* Reads: GET /notes, GET /notes/:id, and the pages of the web package that
\* build the backlinks of a title and the graph from GET /notes
\* ------------------------------------------------------------------------

\* Titles whose backlinks are asked for.
ReadTitles == {<<"B">>, <<"M">>}

\* What every read leaves alone: all of the state but reply and before.
readFrame ==
    <<notes, links, states, clock, writes, pc, result, reindexLocals, indexedBody,
      prevOk, dirty, runClean, indexRuns, extractorVars, cacheVars, other>>

\* GET /notes
ListNotes ==
    /\ reply = NoReply
    /\ \E list \in listNotes(notes) : reply' = [op |-> "listNotes", value |-> list]
    /\ before' = Tables
    /\ lastImport' = NoRequest
    /\ UNCHANGED readFrame

\* Mutant of GetNoteById: a note that is not found is created.
GetNoteById_Upserts(id) ==
    /\ reply = NoReply
    /\ reply' = [op |-> "getNoteById", id |-> id,
                 value |-> IF id \in DOMAIN notes THEN notes[id] ELSE Null]
    /\ before' = Tables
    /\ lastImport' = NoRequest
    /\ notes' = IF id \in DOMAIN notes THEN notes
                ELSE Put(notes, id, [id |-> id, title |-> <<>>, path |-> <<>>,
                                     content |-> <<>>, contentHash |-> <<>>])
    /\ UNCHANGED <<links, states, clock, writes, pc, result, reindexLocals,
                   indexedBody, prevOk, dirty, runClean, indexRuns, extractorVars, cacheVars, other>>

\* GET /notes/:id, as far as the database goes (the body is read from the file).
GetNoteById(id) ==
    /\ reply = NoReply
    /\ reply' = [op |-> "getNoteById", id |-> id,
                 value |-> IF id \in DOMAIN notes THEN notes[id] ELSE Null]
    /\ before' = Tables
    /\ lastImport' = NoRequest
    /\ UNCHANGED readFrame

\* The note page: notes = await getNotes(); buildBacklinks(notes, note.title).
GetBacklinks(title) ==
    /\ reply = NoReply
    /\ \E list \in listNotes(notes) :
          reply' = [op |-> "getBacklinks", notes |-> list, title |-> title,
                    value |-> buildBacklinks(list, title)]
    /\ before' = Tables
    /\ lastImport' = NoRequest
    /\ UNCHANGED readFrame

\* The graph page: notes = await getNotes(); buildNoteGraph(notes).
GetGraph ==
    /\ reply = NoReply
    /\ \E list \in listNotes(notes) :
          reply' = [op |-> "getGraph", notes |-> list, value |-> buildNoteGraph(list)]
    /\ before' = Tables
    /\ lastImport' = NoRequest
    /\ UNCHANGED readFrame

\* The imports the reads are tried after: both paths without titles, and
\* the first path under the title of the second.
ReadImportRequests ==
    {<<[path |-> PathA, title |-> <<>>, version |-> 1],
       [path |-> PathB, title |-> <<>>, version |-> 1]>>,
     <<[path |-> PathA, title |-> <<SP, "B">>, version |-> 1]>>}

ReadNext ==
    \/ ListNotes
    \/ \E id \in Ids : GetNoteById(id)
    \/ \E title \in ReadTitles : GetBacklinks(title)
    \/ GetGraph
    \/ Return
    \/ \E entries \in ReadImportRequests : Import(entries)
    \/ \E id \in Ids, body \in Contents : EditNote(id, body, <<"edit", <<>>, 1>>)
    \/ ReindexStart
    \/ ReindexLoadStates
    \/ ReindexNote
    \/ ReindexCommit
    \/ ReindexFail
    \/ ReindexReturn

\* The handlers together with the reads.
ReadSpec == Init /\ [][ReadNext]_vars

\* ------------------------------------------------------------------------
\* The extractors on a note body: the body is typed piece by piece (link
\* markup, an inline code span, a fenced code block, a character), then both
\* extractWikiLinks run on it
\* ------------------------------------------------------------------------

\* Pieces of one body.
MaxPieces == 3

\* What every step on the body leaves alone: the tables and the handlers.
programVars ==
    <<notes, links, states, clock, writes, pc, result, reindexLocals, indexedBody,
      prevOk, dirty, runClean, indexRuns, reply, before, lastImport, cacheVars, other>>

Repeat(ch, n) == [i \in 1..n |-> ch]

\* [[title]] or [[title|label]], as written.
LinkMarkup(l) ==
    <<LB, LB>> \o l.title \o (IF l.piped THEN <<PIPE>> \o l.label ELSE <<>>)
        \o <<RB, RB>>

\* Link markup written outside code: [[A]], [[ A ]], [[A|x]], [[A| ]],
\* [[ A | x ]], [[ ]], [[A|]] and [[ |x]].
LinksTyped ==
    {[title |-> <<"A">>, piped |-> FALSE, label |-> <<>>],
     [title |-> <<SP, "A", SP>>, piped |-> FALSE, label |-> <<>>],
     [title |-> <<"A">>, piped |-> TRUE, label |-> <<"x">>],
     [title |-> <<"A">>, piped |-> TRUE, label |-> <<SP>>],
     [title |-> <<SP, "A", SP>>, piped |-> TRUE, label |-> <<SP, "x", SP>>],
     [title |-> <<SP>>, piped |-> FALSE, label |-> <<>>],
     [title |-> <<"A">>, piped |-> TRUE, label |-> <<>>],
     [title |-> <<SP>>, piped |-> TRUE, label |-> <<"x">>]}

\* The link written inside code: [[C]].
LinkInCode == [title |-> <<"C">>, piped |-> FALSE, label |-> <<>>]

\* What an inline code span holds: the link, alone or on the span's second line.
SpanBodies == {LinkMarkup(LinkInCode), <<NL>> \o LinkMarkup(LinkInCode)}
\* The link written inside a block whose fence is longer than three: [[D]].
LinkInLongFence == [title |-> <<"D">>, piped |-> FALSE, label |-> <<>>]
\* Length of the fence that opens and closes that block, and of the shorter
\* run inside it.
LongFence == 4
ShortFence == 3

\* Backticks that delimit an inline code span.
SpanTicks == {1, 2}
\* The characters a fence is made of.
FenceChars == {BT, TL}
\* Characters written between the other pieces.
PlainChars == {"x", NL}

Typing == ~coreOut.done /\ Len(typed) < MaxPieces

\* The character before the place where the next piece goes (a line end
\* when the body is still empty).
LastChar == IF text = <<>> THEN NL ELSE text[Len(text)]

AtLineStart == LastChar = NL

TypeLink(l) ==
    /\ Typing
    /\ text' = text \o LinkMarkup(l)
    /\ typed' = Append(typed, [kind |-> "link", link |-> l])
    /\ UNCHANGED <<coreOut, webOut, programVars>>

\* n backticks, the body, n backticks, not next to another backtick.
TypeInlineCode(n, body) ==
    /\ Typing
    /\ LastChar # BT
    /\ text' = text \o Repeat(BT, n) \o body \o Repeat(BT, n)
    /\ typed' = Append(typed, [kind |-> "inline", link |-> LinkInCode])
    /\ UNCHANGED <<coreOut, webOut, programVars>>

\* A fence of three characters on a line of its own, the link on the next
\* line, and the same fence on the line after it.
TypeFencedCode(ch) ==
    /\ Typing
    /\ text' = text \o (IF AtLineStart THEN <<>> ELSE <<NL>>)
                    \o Repeat(ch, 3) \o <<NL>> \o LinkMarkup(LinkInCode) \o <<NL>>
                    \o Repeat(ch, 3) \o <<NL>>
    /\ typed' = Append(typed, [kind |-> "fenced", link |-> LinkInCode])
    /\ UNCHANGED <<coreOut, webOut, programVars>>

\* A fence of four characters on a line of its own, the link, a run of three
\* of the same character on a line of its own, the link again, and the fence
\* of four that closes the block.
TypeLongFencedCode(ch) ==
    /\ Typing
    /\ text' = text \o (IF AtLineStart THEN <<>> ELSE <<NL>>)
                    \o Repeat(ch, LongFence) \o <<NL>>
                    \o LinkMarkup(LinkInLongFence) \o <<NL>>
                    \o Repeat(ch, ShortFence) \o <<NL>>
                    \o LinkMarkup(LinkInLongFence) \o <<NL>>
                    \o Repeat(ch, LongFence) \o <<NL>>
    /\ typed' = Append(typed, [kind |-> "fenced", link |-> LinkInLongFence])
    /\ UNCHANGED <<coreOut, webOut, programVars>>

TypeChar(ch) ==
    /\ Typing
    /\ text' = text \o <<ch>>
    /\ typed' = Append(typed, [kind |-> "char", link |-> LinkInCode])
    /\ UNCHANGED <<coreOut, webOut, programVars>>

\* extractWikiLinks(text), by @hako/core and by the web package.
Extract ==
    /\ ~coreOut.done
    /\ coreOut' = [done |-> TRUE, links |-> extractWikiLinks(text)]
    /\ webOut' = [done |-> TRUE, links |-> webExtractWikiLinks(text)]
    /\ UNCHANGED <<text, typed, programVars>>

ExtractNext ==
    \/ \E l \in LinksTyped : TypeLink(l)
    \/ \E n \in SpanTicks, body \in SpanBodies : TypeInlineCode(n, body)
    \/ \E ch \in FenceChars : TypeFencedCode(ch)
    \/ \E ch \in FenceChars : TypeLongFencedCode(ch)
    \/ \E ch \in PlainChars : TypeChar(ch)
    \/ Extract

ExtractSpec == Init /\ [][ExtractNext]_vars

\* ------------------------------------------------------------------------
\* Two POST /notes/reindex requests in flight.  Each handler reads the notes
\* and the indexing states with plain selects, then runs its writes in one
\* db.transaction.  The store serialises write transactions: the second
\* request's transaction starts when no other is open, and sees what the
\* first committed.
\* ------------------------------------------------------------------------

\* Mutant of IndexPass: the rows of the note are inserted, none deleted.
IndexPass_NoDelete(acc, note, map, titleMap, at) ==
    IF IsUnchanged(note, map)
    THEN [acc EXCEPT !.stats.notesSkipped = @ + 1]
    ELSE LET inserts == buildLinkInserts(note, titleMap)
         IN  [links |-> acc.links \o inserts,
              states |-> Put(acc.states, note.id,
                             [noteId |-> note.id, contentHash |-> note.contentHash,
                              indexedAt |-> at]),
              bodies |-> Put(acc.bodies, note.id, note.content),
              stats |-> [acc.stats EXCEPT !.notesIndexed = @ + 1,
                                          !.linksInserted = @ + Len(inserts)]]

\* One pass of the for loop of the transaction callback, on the tables and
\* counters the passes before it left.
IndexPass(acc, note, map, titleMap, at) ==
    IF IsUnchanged(note, map)
    THEN [acc EXCEPT !.stats.notesSkipped = @ + 1]
    ELSE LET inserts == buildLinkInserts(note, titleMap)
             kept == DeleteLinksFrom(acc.links, note.id)
         IN  [links |-> kept \o inserts,
              states |-> Put(acc.states, note.id,
                             [noteId |-> note.id, contentHash |-> note.contentHash,
                              indexedAt |-> at]),
              bodies |-> Put(acc.bodies, note.id, note.content),
              stats |-> [acc.stats EXCEPT !.notesIndexed = @ + 1,
                                          !.linksDeleted = @ + Len(acc.links) - Len(kept),
                                          !.linksInserted = @ + Len(inserts)]]

\* The for loop over notes.
RECURSIVE RunBatch(_, _, _, _, _)
RunBatch(acc, list, map, titleMap, at) ==
    IF list = <<>> THEN acc
    ELSE RunBatch(IndexPass(acc, Head(list), map, titleMap, at), Tail(list),
                  map, titleMap, at)

\* What the second request leaves alone before its transaction.
otherFrame ==
    <<notes, links, states, writes, pc, result, reindexLocals, indexedBody, prevOk,
      dirty, runClean, indexRuns, reply, before, extractorVars, cacheVars>>

\* A second request arrives while the first is in flight:
\* const notes = await listNotes(db); const titleMap = buildTitleMap(notes)
OtherStart ==
    /\ other.pc = "idle"
    /\ reply = NoReply
    /\ pc \in {"states", "tx"}
    /\ clock < MaxRuns
    /\ \E list \in listNotes(notes) :
          other' = [pc |-> "states", snap |-> list, stateMap |-> EmptyMap,
                    indexedAt |-> 0]
    /\ lastImport' = NoRequest
    /\ UNCHANGED <<clock, otherFrame>>

\* existingStates, stateMap, indexedAt; db.transaction is called.
OtherLoadStates ==
    /\ other.pc = "states"
    /\ reply = NoReply
    /\ pc # "done"
    /\ clock' = clock + 1
    /\ other' = [other EXCEPT
                   !.pc = "begin",
                   !.stateMap = [id \in DOMAIN states |-> states[id].contentHash],
                   !.indexedAt = clock']
    /\ lastImport' = NoRequest
    /\ UNCHANGED otherFrame

\* The transaction of the second request, from begin to commit, and the
\* response built from its counters (with the locals the response was built
\* from: the snapshot and the state map).
OtherTransaction ==
    /\ other.pc = "begin"
    /\ reply = NoReply
    /\ pc \notin {"tx", "done"}
    /\ \E run \in {RunBatch([links |-> links, states |-> states,
                              bodies |-> indexedBody, stats |-> ZeroStats],
                             other.snap, other.stateMap, buildTitleMap(other.snap),
                             other.indexedAt)} :
          /\ links' = run.links
          /\ states' = run.states
          /\ indexedBody' = run.bodies
          /\ reply' = [op |-> "reindex", status |-> "ok",
                       notesTotal |-> Len(other.snap),
                       notesIndexed |-> run.stats.notesIndexed,
                       notesSkipped |-> run.stats.notesSkipped,
                       linksInserted |-> run.stats.linksInserted,
                       linksDeleted |-> run.stats.linksDeleted,
                       snap |-> other.snap, stateMap |-> other.stateMap]
    /\ before' = Tables
    /\ other' = OtherIdle
    /\ lastImport' = NoRequest
    /\ UNCHANGED <<notes, clock, writes, pc, result, reindexLocals, prevOk, dirty,
                   runClean, indexRuns, extractorVars, cacheVars>>

\* The transaction of the second request raises (the store is locked by the
\* first one, or a statement fails): it is rolled back and the error goes to
\* the caller.
OtherFail ==
    /\ other.pc = "begin"
    /\ reply = NoReply
    /\ pc # "done"
    /\ reply' = [op |-> "reindex", status |-> "error"]
    /\ before' = Tables
    /\ other' = OtherIdle
    /\ lastImport' = NoRequest
    /\ UNCHANGED <<notes, links, states, clock, writes, pc, result, reindexLocals,
                   indexedBody, prevOk, dirty, runClean, indexRuns, extractorVars,
                   cacheVars>>

\* The imports and edits the two requests run among: both paths without
\* titles, the first path under the title of the second, and the same with
\* the first path's file in its second state.
ConcurrentImportRequests ==
    ReadImportRequests
        \cup {<<[path |-> PathA, title |-> <<SP, "B">>, version |-> 2]>>}

ConcurrentNext ==
    \/ \E entries \in ConcurrentImportRequests : Import(entries)
    \/ EditNote(computeNoteId(PathB), BodyThreeLinks, <<"edit", <<>>, 1>>)
    \/ Return
    \/ ReindexStart
    \/ ReindexLoadStates
    \/ ReindexNote
    \/ ReindexCommit
    \/ ReindexReturn
    \/ OtherStart
    \/ OtherLoadStates
    \/ OtherTransaction
    \/ OtherFail

ConcurrentSpec == Init /\ [][ConcurrentNext]_vars

\* ------------------------------------------------------------------------
\* Reindex batches one after another, over notes that were imported and then
\* given a body (or touched) by an editor
\* ------------------------------------------------------------------------

\* The import the batches follow: both paths, without titles.
BatchImportRequests ==
    {<<[path |-> PathA, title |-> <<>>, version |-> 1],
       [path |-> PathB, title |-> <<>>, version |-> 1]>>}

\* The bodies the editor stores.
BatchBodies == {BodyEmpty, BodyThreeLinks}

BatchNext ==
    \/ \E entries \in BatchImportRequests : Import(entries)
    \/ \E id \in Ids, body \in BatchBodies, hash \in EditHashes :
          EditNote(id, body, hash)
    \/ Return
    \/ ReindexStart
    \/ ReindexLoadStates
    \/ ReindexNote
    \/ ReindexCommit
    \/ ReindexFail
    \/ ReindexReturn

BatchSpec == Init /\ [][BatchNext]_vars

\* ------------------------------------------------------------------------
\* The config cache of @hako/core: loadHakoConfigCached, reloadHakoConfig and
\* clearHakoConfigCache, the loads they start, and the config files the
\* loads read
\* ------------------------------------------------------------------------

\* Calls of loadHakoConfigCached and reloadHakoConfig per behaviour.
MaxCalls == 3
\* Writes to the config files per behaviour.
MaxFileWrites == 1

\* What a config file holds: two valid configs, and one the schema rejects.
ConfigTexts == {"first", "second", "broken"}

\* What every step of the cache leaves alone: the tables, the handlers and
\* the extractors.
cacheFrame ==
    <<notes, links, states, clock, writes, pc, result, reindexLocals, indexedBody,
      prevOk, dirty, runClean, indexRuns, reply, before, lastImport, extractorVars,
      other>>

CurrentText(key) == configFile[key][Len(configFile[key])]

FileWrites ==
    LET RECURSIVE Sum(_)
        Sum(keys) == IF keys = {} THEN 0
                     ELSE LET k == CHOOSE x \in keys : TRUE
                          IN  Len(configFile[k]) - 1 + Sum(keys \ {k})
    IN  Sum(ConfigKeys)

\* Somebody saves the config file.
WriteConfigFile(key, newText) ==
    /\ FileWrites < MaxFileWrites
    /\ newText # CurrentText(key)
    /\ configFile' = [configFile EXCEPT ![key] = Append(@, newText)]
    /\ UNCHANGED <<configCache, loads, calls, epoch, cacheFrame>>

\* Mutant of loadHakoConfigCached: reload does not delete the entry.
loadHakoConfigCached_ReloadKeepsEntry(key, reload) ==
    /\ Len(calls) < MaxCalls
    /\ LET hit == configCache[key] # NoLoad
           pending == IF hit THEN configCache[key] ELSE Len(loads) + 1
       IN  /\ loads' = IF hit THEN loads
                       ELSE Append(loads, [key |-> key, state |-> "pending",
                                           config |-> NoConfig, settledAt |-> 0])
           /\ configCache' = [configCache EXCEPT ![key] = pending]
           /\ epoch' = IF reload THEN [epoch EXCEPT ![key] = @ + 1] ELSE epoch
           /\ calls' = Append(calls, [key |-> key, reload |-> reload, load |-> pending,
                                      epoch |-> epoch'[key],
                                      version |-> Len(configFile[key])])
    /\ UNCHANGED <<configFile, cacheFrame>>

\* loadHakoConfigCached({configPath, reload}) up to its await: the entry is
\* deleted on reload, a missing entry is filled with a new load, and the call
\* waits for the load it found or started.
loadHakoConfigCached(key, reload) ==
    /\ Len(calls) < MaxCalls
    /\ LET afterDelete == IF reload THEN [configCache EXCEPT ![key] = NoLoad]
                          ELSE configCache
           hit == afterDelete[key] # NoLoad
           pending == IF hit THEN afterDelete[key] ELSE Len(loads) + 1
       IN  /\ loads' = IF hit THEN loads
                       ELSE Append(loads, [key |-> key, state |-> "pending",
                                           config |-> NoConfig, settledAt |-> 0])
           /\ configCache' = [afterDelete EXCEPT ![key] = pending]
           /\ epoch' = IF reload THEN [epoch EXCEPT ![key] = @ + 1] ELSE epoch
           /\ calls' = Append(calls, [key |-> key, reload |-> reload, load |-> pending,
                                      epoch |-> epoch'[key],
                                      version |-> Len(configFile[key])])
    /\ UNCHANGED <<configFile, cacheFrame>>

\* reloadHakoConfig(options) = loadHakoConfigCached({...options, reload: true})
reloadHakoConfig(key) == loadHakoConfigCached(key, TRUE)

\* clearHakoConfigCache({configPath}), where there is an entry to delete.
clearHakoConfigCache(key) ==
    /\ configCache[key] # NoLoad
    /\ configCache' = [configCache EXCEPT ![key] = NoLoad]
    /\ epoch' = [epoch EXCEPT ![key] = @ + 1]
    /\ UNCHANGED <<loads, configFile, calls, cacheFrame>>

\* clearHakoConfigCache(): configCache.clear().
clearHakoConfigCacheAll ==
    /\ \E key \in ConfigKeys : configCache[key] # NoLoad
    /\ configCache' = [key \in ConfigKeys |-> NoLoad]
    /\ epoch' = [key \in ConfigKeys |-> epoch[key] + 1]
    /\ UNCHANGED <<loads, configFile, calls, cacheFrame>>

\* Mutant of LoadSettles: the catch callback deletes whatever the key holds.
LoadSettles_DeletesAnyEntry(p) ==
    /\ p \in 1..Len(loads)
    /\ loads[p].state = "pending"
    /\ LET key == loads[p].key
           source == CurrentText(key)
       IN  IF source = "broken"
           THEN /\ loads' = [loads EXCEPT ![p].state = "rejected",
                                          ![p].settledAt = Len(calls)]
                /\ configCache' = [configCache EXCEPT ![key] = NoLoad]
           ELSE /\ loads' = [loads EXCEPT
                               ![p].state = "fulfilled",
                               ![p].settledAt = Len(calls),
                               ![p].config = [source |-> p, text |-> source,
                                              version |-> Len(configFile[key])]]
                /\ UNCHANGED configCache
    /\ UNCHANGED <<configFile, calls, epoch, cacheFrame>>

\* loadHakoConfig reads the file, parses and validates the text and settles:
\* it is fulfilled with the config built from the text, or rejected, and
\* then the callback given to pending.catch runs before any caller goes on.
\* (Between readFile and the settling there are only microtasks; a call
\* made there finds what a call made just before the read finds.)
LoadSettles(p) ==
    /\ p \in 1..Len(loads)
    /\ loads[p].state = "pending"
    /\ LET key == loads[p].key
           source == CurrentText(key)
       IN  IF source = "broken"
           THEN /\ loads' = [loads EXCEPT ![p].state = "rejected",
                                          ![p].settledAt = Len(calls)]
                /\ configCache' = IF configCache[key] = p
                                  THEN [configCache EXCEPT ![key] = NoLoad]
                                  ELSE configCache
           ELSE /\ loads' = [loads EXCEPT
                               ![p].state = "fulfilled",
                               ![p].settledAt = Len(calls),
                               ![p].config = [source |-> p, text |-> source,
                                              version |-> Len(configFile[key])]]
                /\ UNCHANGED configCache
    /\ UNCHANGED <<configFile, calls, epoch, cacheFrame>>

CacheNext ==
    \/ \E key \in ConfigKeys, newText \in ConfigTexts : WriteConfigFile(key, newText)
    \/ \E key \in ConfigKeys : loadHakoConfigCached(key, FALSE)
    \/ \E key \in ConfigKeys : reloadHakoConfig(key)
    \/ \E key \in ConfigKeys : clearHakoConfigCache(key)
    \/ clearHakoConfigCacheAll
    \/ \E p \in 1..MaxCalls : LoadSettles(p)

CacheSpec == Init /\ [][CacheNext]_vars

\* ------------------------------------------------------------------------
\* Properties
\* ------------------------------------------------------------------------

\* The reindex call has committed and holds its response.
Committed == pc = "done" /\ result.status = "ok"

\* The reindex call has failed and holds its error.
Failed == pc = "done" /\ result.status = "error"

SnapIndex == 1..Len(snap)

\* The note's contentHash in the snapshot equals the hash its indexing-state
\* row held when the transaction opened.
HashStored(note) ==
    note.id \in DOMAIN preStates /\ preStates[note.id].contentHash = note.contentHash

\* What an extraction determines of a link row.
RowShape(rows) ==
    [i \in 1..Len(rows) |->
       [toTitle |-> rows[i].toTitle, linkText |-> rows[i].linkText,
        position |-> rows[i].position]]

LinkShape(extracted) ==
    [i \in 1..Len(extracted) |->
       [toTitle |-> extracted[i].title, linkText |-> extracted[i].label,
        position |-> i - 1]]

HasTitle(list, title) == \E i \in 1..Len(list) : list[i].title = title

\* C1: a reindex call that follows a committed one, with no write to notes
\* since the earlier call read them, reports notesIndexed = 0, notesSkipped =
\* notesTotal, linksInserted = 0 and linksDeleted = 0, and leaves the links
\* table as it was before the call.
C1_SecondRunIsNoOp ==
    (Committed /\ runClean) =>
        /\ result.notesIndexed = 0
        /\ result.notesSkipped = result.notesTotal
        /\ result.linksInserted = 0
        /\ result.linksDeleted = 0
        /\ links = preLinks

C1_Witness ==
    /\ Committed
    /\ runClean
    /\ result.notesTotal = 2
    /\ links # <<>>

\* C2: for every note with an indexing-state row, the link rows with that
\* fromNoteId are exactly the links extracted from the content the note had
\* when it was last indexed, one row per link, in order, none left over.
C2_LinksAreLastExtraction ==
    \A id \in DOMAIN states :
        /\ id \in DOMAIN indexedBody
        /\ RowShape(LinksFrom(links, id)) = LinkShape(extractWikiLinks(indexedBody[id]))

C2_Witness ==
    \E id \in DOMAIN states :
        /\ states[id].indexedAt = 2
        /\ Len(LinksFrom(links, id)) = 1
        /\ Len(extractWikiLinks(notes[id].content)) = 3
        /\ pc = "idle"

\* C3: when the write phase of a reindex batch raises, links and
\* note_link_states hold what they held before the batch, and the caller
\* gets the error.
C3_FailedBatchPersistsNothing ==
    Failed => (links = preLinks /\ states = preStates)

C3_Witness ==
    /\ Failed
    /\ txLinks # links
    /\ txStates # states
    /\ links # <<>>

\* C4: a note whose contentHash equals the hash of its indexing-state row is
\* skipped: its link rows and its state row (contentHash and indexedAt) are
\* as before the batch, and it is counted in notesSkipped, not notesIndexed.
C4_UnchangedNoteIsSkipped ==
    Committed =>
        LET same == {i \in SnapIndex : HashStored(snap[i])}
        IN  /\ \A i \in same :
                  /\ LinksFrom(links, snap[i].id) = LinksFrom(preLinks, snap[i].id)
                  /\ states[snap[i].id] = preStates[snap[i].id]
            /\ result.notesSkipped = Cardinality(same)
            /\ result.notesIndexed = Len(snap) - Cardinality(same)

C4_Witness ==
    /\ Committed
    /\ \E i \in SnapIndex :
          /\ HashStored(snap[i])
          /\ LinksFrom(links, snap[i].id) # <<>>
          /\ states[snap[i].id].indexedAt < indexedAt
    /\ result.notesIndexed = 1
    /\ result.notesSkipped = 1

\* C5: a note with no indexing-state row is indexed, never skipped, and after
\* a batch commits every note of its snapshot has a state row whose
\* contentHash is the note's contentHash in the snapshot.
C5_MissingStateMeansIndexed ==
    Committed =>
        /\ \A i \in SnapIndex :
              /\ snap[i].id \in DOMAIN states
              /\ states[snap[i].id].contentHash = snap[i].contentHash
              /\ snap[i].id \notin DOMAIN preStates
                    => states[snap[i].id].indexedAt = indexedAt
        /\ result.notesIndexed >=
              Cardinality({i \in SnapIndex : snap[i].id \notin DOMAIN preStates})

C5_Witness ==
    /\ Committed
    /\ \E i \in SnapIndex : snap[i].id \notin DOMAIN preStates
    /\ \E i \in SnapIndex : snap[i].id \in DOMAIN preStates
    /\ result.notesSkipped = 1

\* A row that points to a title no note of the snapshot has.
IsStale(row) == row.toNoteId = Null /\ ~HasTitle(snap, row.toTitle)

\* The note owned a stale row, and its content (and hash) changed to one
\* without links.
LostItsLinks(note) ==
    /\ \E k \in 1..Len(preLinks) :
          preLinks[k].fromNoteId = note.id /\ IsStale(preLinks[k])
    /\ ~HashStored(note)
    /\ extractWikiLinks(note.content) = <<>>

\* C6: a note that owns a row to a title matching no note, and whose content
\* and contentHash change so that it has no link, has zero link rows after
\* the reindex: the stale row is deleted.
C6_StaleRowIsPruned ==
    Committed =>
        \A i \in SnapIndex :
            LostItsLinks(snap[i]) =>
                /\ LinksFrom(links, snap[i].id) = <<>>
                /\ result.linksDeleted >= Len(LinksFrom(preLinks, snap[i].id))

C6_Witness ==
    /\ Committed
    /\ \E i \in SnapIndex : LostItsLinks(snap[i]) /\ LinksFrom(links, snap[i].id) = <<>>

\* Rows of table from note id at one position.
RowsAt(table, id, position) ==
    SelectSeq(table, LAMBDA r : r.fromNoteId = id /\ r.position = position)

\* C7: a link to a title no note has is one row with toNoteId = null; once a
\* note with that title exists and the linking note is indexed again, that
\* link is still exactly one row, and its toNoteId is the id of a note with
\* that title.
C7_UnresolvedThenResolved ==
    Committed =>
        \A i \in SnapIndex :
            ~HashStored(snap[i]) =>
                LET extracted == extractWikiLinks(snap[i].content)
                IN  \A k \in 1..Len(extracted) :
                        LET rows == RowsAt(links, snap[i].id, k - 1)
                        IN  /\ Len(rows) = 1
                            /\ rows[1].toTitle = extracted[k].title
                            /\ IF HasTitle(snap, extracted[k].title)
                               THEN \E j \in SnapIndex :
                                       /\ snap[j].title = extracted[k].title
                                       /\ rows[1].toNoteId = snap[j].id
                               ELSE rows[1].toNoteId = Null

C7_Witness ==
    /\ Committed
    /\ \E i \in SnapIndex :
          /\ ~HashStored(snap[i])
          /\ \E k \in 1..Len(preLinks) :
                /\ preLinks[k].fromNoteId = snap[i].id
                /\ preLinks[k].toNoteId = Null
                /\ LET rows == RowsAt(links, snap[i].id, preLinks[k].position)
                   IN  /\ Len(rows) = 1
                       /\ rows[1].toTitle = preLinks[k].toTitle
                       /\ rows[1].toNoteId # Null
                       /\ rows[1].toNoteId # snap[i].id

\* The source note of the row is in the snapshot with the hash already
\* stored, so this batch skipped it.
SourceSkipped(row) ==
    \E i \in SnapIndex : snap[i].id = row.fromNoteId /\ HashStored(snap[i])

\* The source note of the row was indexed by this batch.
SourceIndexed(row) ==
    \E i \in SnapIndex : snap[i].id = row.fromNoteId /\ ~HashStored(snap[i])

\* C8 as claimed: once a batch has committed, a link row whose title a note of
\* the batch's snapshot carries is resolved (toNoteId is not null), whether or
\* not the source note's contentHash changed.
C8_TargetAddedFlipsAnyRow ==
    Committed =>
        \A k \in 1..Len(links) :
            HasTitle(snap, links[k].toTitle) => links[k].toNoteId # Null

\* C8 as amended: after a batch commits, the rows of a source note the batch
\* indexed are resolved against the batch's snapshot (toNoteId is null
\* exactly when no note has the title), and the rows of every other source
\* note, its toNoteId included, are what they were before the batch.
C8_FlipNeedsReindexedSource ==
    Committed =>
        \A k \in 1..Len(links) :
            IF SourceIndexed(links[k])
            THEN (links[k].toNoteId = Null) <=> ~HasTitle(snap, links[k].toTitle)
            ELSE LinksFrom(links, links[k].fromNoteId)
                     = LinksFrom(preLinks, links[k].fromNoteId)

C8_Witness ==
    /\ Committed
    /\ \E k \in 1..Len(links) :
          /\ SourceSkipped(links[k])
          /\ links[k].toNoteId = Null
          /\ HasTitle(snap, links[k].toTitle)
    /\ \E k \in 1..Len(links) : SourceIndexed(links[k]) /\ links[k].toNoteId # Null

\* C9: when a batch produces a row from note A resolved to note B, the
\* backlinks of B's title built from the same notes include A.
C9_BacklinkSymmetry ==
    Committed =>
        \A k \in 1..Len(links) :
            (SourceIndexed(links[k]) /\ links[k].toNoteId # Null) =>
                \E i, j \in SnapIndex :
                    /\ snap[i].id = links[k].fromNoteId
                    /\ snap[j].id = links[k].toNoteId
                    /\ LET backlinks == buildBacklinks(snap, snap[j].title)
                       IN  \E b \in 1..Len(backlinks) :
                               backlinks[b].title = snap[i].title

\* Edges of the committed links table: the resolved rows.
CommittedEdges ==
    {<<links[k].fromNoteId, links[k].toNoteId>> :
        k \in {n \in 1..Len(links) : links[n].toNoteId # Null}}

\* Edges of the graph the web package builds from a notes list.
GraphEdges(list) ==
    LET g == buildNoteGraph(list).links
    IN  {<<g[k].source, g[k].target>> : k \in 1..Len(g)}

\* C10: at every moment the graph given to consumers is the one of the edge
\* state the last successful batch committed.
C10_ReadsSeeCommittedEdges ==
    \A list \in listNotes(notes) : GraphEdges(list) = CommittedEdges

\* C11: every reindex call has its own index_runs row, the last one of the
\* table: running while the batch is at work, success with a finish time once
\* it has committed, failed once its transaction has raised.
C11_EveryRunIsLedgered ==
    /\ pc = "tx" =>
          /\ Len(indexRuns) = clock
          /\ indexRuns[clock].status = "running"
    /\ pc = "done" =>
          /\ Len(indexRuns) = clock
          /\ indexRuns[clock].status =
                (IF result.status = "ok" THEN "success" ELSE "failed")
          /\ result.status = "ok" => indexRuns[clock].finishedAt # Null

\* The response of a read is ready.
ReadOps == {"listNotes", "getNoteById", "getBacklinks", "getGraph"}

\* C12: when a read (list notes, get note by id, backlinks, graph) has its
\* response ready, the notes, links, note_link_states and index_runs tables
\* are what they were when the read started, also in the middle of a batch.
C12_ReadsLeaveTablesAlone ==
    reply.op \in ReadOps =>
        /\ notes = before.notes
        /\ links = before.links
        /\ states = before.states
        /\ indexRuns = before.indexRuns

C12_Witness ==
    /\ reply.op = "getNoteById"
    /\ reply.id \in DOMAIN notes
    /\ reply.value.content # <<>>
    /\ pc = "tx"
    /\ links # <<>>
    /\ txLinks # links

\* The links the web package extracts from a note that go to a title.
WebLinksTo(note, title) ==
    SelectSeq(webExtractWikiLinks(note.content), LAMBDA l : l.title = title)

\* C17: the backlinks of a title are the notes of the list that have at least
\* one link to it, each once, in list order, whatever the number of links.
C17_BacklinksOncePerSource ==
    reply.op = "getBacklinks" =>
        LET sources == SelectSeq(reply.notes,
                                 LAMBDA n : WebLinksTo(n, reply.title) # <<>>)
        IN  reply.value =
                [i \in 1..Len(sources) |->
                   [title |-> sources[i].title, label |-> sources[i].title]]

C17_Witness ==
    /\ reply.op = "getBacklinks"
    /\ Len(reply.notes) = 2
    /\ Len(reply.value) = 1
    /\ \E i \in 1..2 : Len(WebLinksTo(reply.notes[i], reply.title)) = 2
    /\ \E i \in 1..2 : WebLinksTo(reply.notes[i], reply.title) = <<>>

\* The links of the notes of a list that go to a title some note of the list
\* has: <<i, k>> is the k-th link of the i-th note.
KnownLinks(list) ==
    UNION {{<<i, k>> : k \in {n \in 1..Len(webExtractWikiLinks(list[i].content)) :
                                HasTitle(list, webExtractWikiLinks(list[i].content)[n].title)}}
              : i \in 1..Len(list)}

\* C18: the graph has one node {id, title} per note of the list, in order;
\* every edge goes from a note of the list to a note of the list whose title
\* one of the source's links names; and there are as many edges as links to
\* known titles, so a link to an unknown title gives no edge.
C18_GraphNodesAndEdges ==
    reply.op = "getGraph" =>
        LET list == reply.notes
            g == reply.value
        IN  /\ g.nodes = [i \in 1..Len(list) |->
                            [id |-> list[i].id, title |-> list[i].title]]
            /\ \A e \in 1..Len(g.links) :
                  \E i, j \in 1..Len(list) :
                      /\ g.links[e].source = list[i].id
                      /\ g.links[e].target = list[j].id
                      /\ WebLinksTo(list[i], list[j].title) # <<>>
            /\ Len(g.links) = Cardinality(KnownLinks(list))

C18_Witness ==
    /\ reply.op = "getGraph"
    /\ Len(reply.value.nodes) = 2
    /\ Len(reply.value.links) = 2
    /\ \E i \in 1..2 : WebLinksTo(reply.notes[i], <<"M">>) # <<>>

\* C13: when an import has its response ready, the links and
\* note_link_states tables are what they were when it started, and every
\* notes row that was there is still there.
C13_ImportTouchesOnlyNotes ==
    reply.op = "import" =>
        /\ links = before.links
        /\ states = before.states
        /\ DOMAIN before.notes \subseteq DOMAIN notes

C13_Witness ==
    /\ reply.op = "import"
    /\ reply.updated = 1
    /\ \E k \in 1..Len(links) : links[k].fromNoteId = reply.notes[1].id
    /\ reply.notes[1].id \in DOMAIN states

\* Index in the snapshot of the note the title map holds for a title: the
\* last one of the list with that title.
TitleHolder(title) ==
    CHOOSE j \in SnapIndex :
        /\ snap[j].title = title
        /\ \A n \in SnapIndex : snap[n].title = title => n <= j

\* C14: after a batch commits, the rows of a note it indexed are the links
\* extracted from the note's content, in order: row k (from 0) has the note's
\* id, position k, the link's title and label, and the id and path of the
\* note the title map holds for the title, or null for both when no note of
\* the snapshot has the title.
C14_RowsAreExtractedLinks ==
    Committed =>
        \A i \in SnapIndex :
            ~HashStored(snap[i]) =>
                LET extracted == extractWikiLinks(snap[i].content)
                    rows == LinksFrom(links, snap[i].id)
                IN  /\ Len(rows) = Len(extracted)
                    /\ \A k \in 1..Len(extracted) :
                          /\ rows[k].fromNoteId = snap[i].id
                          /\ rows[k].position = k - 1
                          /\ rows[k].toTitle = extracted[k].title
                          /\ rows[k].linkText = extracted[k].label
                          /\ IF HasTitle(snap, extracted[k].title)
                             THEN /\ rows[k].toNoteId
                                        = snap[TitleHolder(extracted[k].title)].id
                                  /\ rows[k].toPath
                                        = snap[TitleHolder(extracted[k].title)].path
                             ELSE /\ rows[k].toNoteId = Null
                                  /\ rows[k].toPath = Null

C14_Witness ==
    /\ Committed
    /\ Len(snap) = 2
    /\ snap[1].title = snap[2].title
    /\ \E i \in SnapIndex :
          /\ ~HashStored(snap[i])
          /\ LET rows == LinksFrom(links, snap[i].id)
             IN  /\ Len(rows) = 3
                 /\ rows[1].linkText = <<"x">>
                 /\ rows[1].toNoteId = snap[2].id
                 /\ rows[2].toNoteId = Null
                 /\ rows[3].position = 2

\* The link a piece of markup stands for: the trimmed title, and the trimmed
\* text after the pipe, or the title when there is no such text or it is blank.
Expected(l) ==
    [title |-> Trim(l.title),
     label |-> IF l.piped /\ Trim(l.label) # <<>> THEN Trim(l.label)
               ELSE Trim(l.title)]

\* Markup that is a link: the title is not blank, and a pipe has text after it.
WellFormed(l) == Trim(l.title) # <<>> /\ (l.piped => l.label # <<>>)

\* The links written outside code, in order.
ExpectedOutside ==
    LET outside == SelectSeq(typed,
                             LAMBDA p : p.kind = "link" /\ WellFormed(p.link))
    IN  [i \in 1..Len(outside) |-> Expected(outside[i].link)]

CodeTyped == \E k \in 1..Len(typed) : typed[k].kind \in {"inline", "fenced"}

\* C15: every link either extractor gives is a piece of markup of the body
\* with its title trimmed and, for label, the trimmed text after the pipe, or
\* the title when that text is missing or blank; in a body without code the
\* links given are exactly those of the markup, in order.
C15_LabelDefaults ==
    coreOut.done =>
        \A out \in {coreOut.links, webOut.links} :
            /\ \A i \in 1..Len(out) :
                  \E k \in 1..Len(typed) :
                      typed[k].kind # "char" /\ out[i] = Expected(typed[k].link)
            /\ ~CodeTyped => out = ExpectedOutside

C15_Witness ==
    /\ coreOut.done
    /\ Len(typed) = 3
    /\ typed[1].link = [title |-> <<"A">>, piped |-> TRUE, label |-> <<SP>>]
    /\ typed[2].link = [title |-> <<SP, "A", SP>>, piped |-> TRUE,
                        label |-> <<SP, "x", SP>>]
    /\ typed[3].link = [title |-> <<"A">>, piped |-> FALSE, label |-> <<>>]
    /\ typed[3].kind = "link"
    /\ coreOut.links = <<[title |-> <<"A">>, label |-> <<"A">>],
                         [title |-> <<"A">>, label |-> <<"x">>],
                         [title |-> <<"A">>, label |-> <<"A">>]>>

\* C16: both extractors give the links written outside code, in order, and
\* nothing else: no link written in an inline code span or in a fenced block
\* of backticks or tildes.
C16_CodeIsMasked ==
    coreOut.done =>
        /\ coreOut.links = ExpectedOutside
        /\ webOut.links = ExpectedOutside

\* The import whose response is ready has the body of the request served
\* just before it, an import too: nothing was written in between.
SameImportAgain == reply.op = "import" /\ before.lastImport = lastImport

\* No path is in the request under two titles.
OneTitlePerPath(entries) ==
    \A i, j \in 1..Len(entries) :
        entries[i].path = entries[j].path => EntryTitle(entries[i]) = EntryTitle(entries[j])

AllSkipped ==
    /\ reply.created = 0
    /\ reply.updated = 0
    /\ reply.skipped = reply.total
    /\ \A i \in 1..Len(reply.notes) : reply.notes[i].status = "skipped"
    /\ notes = before.notes

\* C19 as claimed: an import of the entries the import just before it had
\* reports created = 0, updated = 0 and skipped = total, and leaves the notes
\* rows as they were.
C19_SecondImportSkipsAll == SameImportAgain => AllSkipped

\* C19 as amended: the same, for requests in which no path comes under two
\* different titles.
C19_SecondImportSkipsOneTitlePerPath ==
    (SameImportAgain /\ OneTitlePerPath(lastImport)) => AllSkipped

C19_Witness ==
    /\ SameImportAgain
    /\ OneTitlePerPath(lastImport)
    /\ reply.total = 2
    /\ reply.skipped = 2
    /\ \E id \in DOMAIN notes : notes[id].contentHash = computeSourceFingerprint(PathA, 1)

\* C20: an import leaves the contentHash of a note that has content as it
\* was, also when it updates the title; a contentHash it changes belonged to
\* a note without content and becomes the fingerprint of the entry's file.
\* The content itself is never changed.
C20_HashKeptWhenContentExists ==
    reply.op = "import" =>
        \A id \in DOMAIN before.notes :
            LET old == before.notes[id]
                new == notes[id]
            IN  /\ new.content = old.content
                /\ old.content # <<>> => new.contentHash = old.contentHash
                /\ new.contentHash # old.contentHash =>
                      /\ old.content = <<>>
                      /\ \E i \in 1..Len(lastImport) :
                            /\ computeNoteId(lastImport[i].path) = id
                            /\ new.contentHash =
                                  computeSourceFingerprint(lastImport[i].path,
                                                           lastImport[i].version)

C20_Witness ==
    /\ reply.op = "import"
    /\ \E id \in DOMAIN before.notes :
          /\ before.notes[id].content # <<>>
          /\ notes[id].title # before.notes[id].title
          /\ notes[id].contentHash = before.notes[id].contentHash
          /\ notes[id].contentHash # computeSourceFingerprint(notes[id].path, 1)
    /\ \E id \in DOMAIN before.notes :
          /\ before.notes[id].content = <<>>
          /\ notes[id].contentHash # before.notes[id].contentHash

\* The call has returned a config: the load it waited for is fulfilled.
Returned(c) == loads[c.load].state = "fulfilled"

ConfigOf(c) == loads[c.load].config

\* C21: of two calls for one key with no reload and no clear of the key from
\* the first to the second, the second returns the config the first returned,
\* whatever was written to the file since; and a reload returns a config read
\* from the file no earlier than the reload was called (so later cached calls
\* return that one).
C21_CachedUntilReload ==
    /\ \A i, j \in 1..Len(calls) :
          (/\ i < j
           /\ calls[i].key = calls[j].key
           /\ calls[i].epoch = calls[j].epoch
           /\ Returned(calls[i])
           /\ Returned(calls[j])) => ConfigOf(calls[j]) = ConfigOf(calls[i])
    /\ \A i \in 1..Len(calls) :
          (calls[i].reload /\ Returned(calls[i])) =>
              ConfigOf(calls[i]).version >= calls[i].version

C21_Witness ==
    /\ Len(calls) = 3
    /\ \A i \in 1..3 : Returned(calls[i])
    /\ ~calls[2].reload
    /\ calls[2].epoch = calls[1].epoch
    /\ calls[2].version > ConfigOf(calls[2]).version
    /\ ConfigOf(calls[2]).text = "first"
    /\ calls[3].reload
    /\ ConfigOf(calls[3]).text = "second"

\* C30: the cache never holds a rejected load; the load a call found or
\* installed is still the entry of its key while the key was not reloaded or
\* cleared since and the load has not failed, whatever other load of the key
\* was rejected meanwhile; and no call made after a load was rejected waits
\* for that load.
C30_RejectionRemovesOwnEntryOnly ==
    /\ \A key \in ConfigKeys :
          configCache[key] # NoLoad => loads[configCache[key]].state # "rejected"
    /\ \A i \in 1..Len(calls) :
          (/\ calls[i].epoch = epoch[calls[i].key]
           /\ loads[calls[i].load].state # "rejected")
              => configCache[calls[i].key] = calls[i].load
    /\ \A i \in 1..Len(calls) :
          loads[calls[i].load].state = "rejected" => i <= loads[calls[i].load].settledAt

C30_Witness ==
    /\ Len(calls) = 3
    /\ calls[2].reload
    /\ calls[1].load = 1
    /\ calls[2].load = 2
    /\ loads[1].state = "rejected"
    /\ loads[1].settledAt = 2
    /\ loads[2].state = "rejected"
    /\ loads[2].settledAt = 2
    /\ ~calls[3].reload
    /\ calls[3].load = 3
    /\ configCache[calls[3].key] = 3

\* The batch indexed the note at position i of its snapshot.
IndexedAt(i) == ~HashStored(snap[i])

\* C22: every link row a committed batch inserted is resolved against the one
\* title map built from the snapshot the batch loaded at its start: the rows
\* of each note it indexed are buildLinkInserts of the snapshot's note under
\* buildTitleMap of the snapshot, whatever was imported or retitled between
\* the snapshot and the commit.
C22_ResolvedAgainstSnapshot ==
    Committed =>
        \A i \in SnapIndex :
            IndexedAt(i) =>
                LinksFrom(links, snap[i].id)
                    = buildLinkInserts(snap[i], buildTitleMap(snap))

\* A batch committed a row resolved to a note that was retitled after the
\* snapshot and no longer carries the row's title.
C22_Witness ==
    /\ Committed
    /\ \E k \in 1..Len(links) :
          /\ SourceIndexed(links[k])
          /\ links[k].toNoteId # Null
          /\ links[k].toNoteId \in DOMAIN notes
          /\ notes[links[k].toNoteId].title # links[k].toTitle

\* The second request has committed and holds its response.
OtherCommitted == reply.op = "reindex" /\ reply.status = "ok"

\* The second request indexed the note at position i of its snapshot.
OtherIndexed(i) == ~IsUnchanged(reply.snap[i], reply.stateMap)

\* Both requests indexed the note at position i of the second one's snapshot
\* while they overlapped: the first committed rows and an indexing-state row
\* for it after the second had read the indexing states, and the second
\* indexed it again.
BothIndexed(i) ==
    LET id == reply.snap[i].id
    IN  /\ OtherIndexed(i)
        /\ id \in DOMAIN before.states
        /\ IF id \in DOMAIN reply.stateMap
           THEN reply.stateMap[id] # before.states[id].contentHash
           ELSE TRUE
        /\ LinksFrom(before.links, id) # <<>>

\* Rows of a links table whose source is a note of the list that a batch
\* with the given state map indexes.
RowsOfIndexed(table, list, map) ==
    SelectSeq(table, LAMBDA r :
        \E i \in 1..Len(list) :
            list[i].id = r.fromNoteId /\ ~IsUnchanged(list[i], map))

\* The rows the second request left for the note are the extraction of the
\* content it read, each link once and in order.
OtherRowsExact(i) ==
    LinksFrom(links, reply.snap[i].id)
        = buildLinkInserts(reply.snap[i], buildTitleMap(reply.snap))

\* The counters of the second request are the rows it deleted and inserted.
OtherCountersMatch ==
    /\ reply.linksDeleted = Len(RowsOfIndexed(before.links, reply.snap, reply.stateMap))
    /\ reply.linksInserted = Len(RowsOfIndexed(links, reply.snap, reply.stateMap))
    /\ Len(links) = Len(before.links) - reply.linksDeleted + reply.linksInserted

LastWithTitle(j, title) ==
    /\ snap[j].title = title
    /\ \A h \in SnapIndex : snap[h].title = title => h <= j

\* C24: when several notes of the snapshot share a title, every link row the
\* committed batch inserted for that title points to one and the same note,
\* the one that comes last in the notes list the title map was built from.
C24_LastNoteWinsTitle ==
    Committed =>
        \A k \in 1..Len(links) :
            (SourceIndexed(links[k]) /\ HasTitle(snap, links[k].toTitle)) =>
                \E j \in SnapIndex :
                    /\ LastWithTitle(j, links[k].toTitle)
                    /\ links[k].toNoteId = snap[j].id
                    /\ links[k].toPath = snap[j].path

\* Two notes of the snapshot share a title, and the batch inserted two rows
\* for it.
C24_Witness ==
    /\ Committed
    /\ \E i, j \in SnapIndex : i < j /\ snap[i].title = snap[j].title
          /\ \E k, h \in 1..Len(links) :
                /\ k # h
                /\ SourceIndexed(links[k])
                /\ SourceIndexed(links[h])
                /\ links[k].toTitle = snap[i].title
                /\ links[h].toTitle = snap[i].title
                /\ links[k].toNoteId = snap[j].id
                /\ links[h].toNoteId = snap[j].id

\* The piece at position k of the body is the block with the long fence.
LongFenceAt(k) == typed[k].kind = "fenced" /\ typed[k].link = LinkInLongFence

\* C25: a fenced block opened by a run of four backticks (or tildes) is not
\* closed by the run of three inside it but by the later run of four: the
\* core extractor gives neither the link before the shorter run nor the one
\* between the shorter run and the closing fence.
C25_ShorterRunDoesNotClose ==
    coreOut.done =>
        \A i \in 1..Len(coreOut.links) :
            coreOut.links[i].title # LinkInLongFence.title

\* A body with such a block, then a link outside code: the extractor gives
\* that link only, so the block ended at its closing fence.
C25_Witness ==
    /\ coreOut.done
    /\ Len(typed) = 3
    /\ typed[1].kind = "link" /\ WellFormed(typed[1].link)
    /\ LongFenceAt(2)
    /\ typed[3].kind = "link" /\ WellFormed(typed[3].link)
    /\ coreOut.links = <<Expected(typed[1].link), Expected(typed[3].link)>>

\* The links table a full rebuild leaves: the loop of the batch run on the
\* same snapshot and the same tables with an empty state map, so that every
\* note is indexed.
FullRebuild ==
    RunBatch([links |-> preLinks, states |-> preStates, bodies |-> indexedBody,
              stats |-> ZeroStats],
             snap, EmptyMap, buildTitleMap(snap), indexedAt).links

\* C26 as claimed: after an incremental batch commits, every note has the
\* link rows a full rebuild from the same snapshot would give it.
C26_IncrementalIsFullRebuild ==
    Committed =>
        \A i \in SnapIndex :
            LinksFrom(links, snap[i].id) = LinksFrom(FullRebuild, snap[i].id)

\* C26 as amended: after an incremental batch commits, a note the batch
\* indexed has the rows a full rebuild from the same snapshot would give it;
\* a note the batch skipped keeps the rows it had, which name the same titles,
\* labels and positions as the rebuild's when its content is the one last
\* indexed, but keep the toNoteId and toPath of the earlier resolution.
C26_IndexedNotesAreRebuilt ==
    Committed =>
        \A i \in SnapIndex :
            LET id == snap[i].id
            IN  IF IndexedAt(i)
                THEN LinksFrom(links, id) = LinksFrom(FullRebuild, id)
                ELSE /\ LinksFrom(links, id) = LinksFrom(preLinks, id)
                     /\ (id \in DOMAIN indexedBody
                            /\ indexedBody[id] = snap[i].content)
                          => RowShape(LinksFrom(links, id))
                                 = RowShape(LinksFrom(FullRebuild, id))

\* A batch indexed one note and skipped another whose content is the one last
\* indexed, and the skipped one has a row the rebuild would point at a
\* different note.
C26_Witness ==
    /\ Committed
    /\ \E i \in SnapIndex : IndexedAt(i)
    /\ \E i \in SnapIndex :
          /\ ~IndexedAt(i)
          /\ indexedBody[snap[i].id] = snap[i].content
          /\ LinksFrom(links, snap[i].id) # LinksFrom(FullRebuild, snap[i].id)

\* C27: a committed batch reports notesIndexed + notesSkipped = notesTotal,
\* the number of notes of its snapshot; linksInserted is the number of rows
\* it inserted (the rows of the notes it indexed, after the batch) and
\* linksDeleted the number it deleted (their rows before the batch); the
\* links table has as many rows as before, minus linksDeleted, plus
\* linksInserted.
C27_CountersAddUp ==
    Committed =>
        /\ result.notesTotal = Len(snap)
        /\ result.notesIndexed + result.notesSkipped = result.notesTotal
        /\ result.notesIndexed = Cardinality({i \in SnapIndex : IndexedAt(i)})
        /\ result.linksInserted = Len(RowsOfIndexed(links, snap, stateMap))
        /\ result.linksDeleted = Len(RowsOfIndexed(preLinks, snap, stateMap))
        /\ Len(links) = Len(preLinks) - result.linksDeleted + result.linksInserted

\* A batch that indexed one note and skipped the other, deleted rows and
\* inserted rows, and left rows of the skipped note in the table.
C27_Witness ==
    /\ Committed
    /\ result.notesIndexed = 1
    /\ result.notesSkipped = 1
    /\ result.linksDeleted > 0
    /\ result.linksInserted > 0
    /\ Len(links) > result.linksInserted

\* The note at position i of the snapshot has another contentHash now: an
\* import changed it after the batch had loaded its snapshot.
HashChangedSince(i) == notes[snap[i].id].contentHash # snap[i].contentHash

\* The hashes the indexing states hold now, as the next batch will load them.
StoredHashes == [id \in DOMAIN states |-> states[id].contentHash]

C29_ImportedNoteHasNoLinks ==
    /\ reply.op = "import" =>
          \A id \in DOMAIN notes :
              IF id \in DOMAIN before.notes
              THEN notes[id].content = before.notes[id].content
              ELSE notes[id].content = <<>>
    /\ Committed =>
          \A i \in SnapIndex :
              (IndexedAt(i) /\ snap[i].content = <<>>) =>
                  /\ LinksFrom(links, snap[i].id) = <<>>
                  /\ buildLinkInserts(snap[i], buildTitleMap(snap)) = <<>>

\* A batch indexed an imported note whose content is empty next to a note
\* with links to it, and the imported note has no row.
C29_Witness ==
    /\ Committed
    /\ result.linksInserted > 0
    /\ \E i \in SnapIndex :
          /\ IndexedAt(i)
          /\ snap[i].content = <<>>
          /\ LinksFrom(links, snap[i].id) = <<>>
          /\ \E k \in 1..Len(links) : links[k].toNoteId = snap[i].id

====
